---- MODULE Spec2Model ----
(***************************************************************************)
(* Campaign execution and result aggregation of the Elasticsearch          *)
(* performance benchmark: the configuration-space generator                *)
(* (campaign/config-generator), the campaign runner (campaign/runner) and  *)
(* the StreamProcessor of visualization/chart-generator.                   *)
(*                                                                         *)
(* JavaScript strings are TLA+ strings (\o concatenates, SubSeq slices);   *)
(* a JavaScript value that may be a number or a string is a tagged record  *)
(* Num(n) or Str(s).  Objects that the code shares by reference and        *)
(* mutates in place (searchQueries and its two children) live in a heap.   *)
(***************************************************************************)
EXTENDS Integers, Sequences, FiniteSets, TLC

VARIABLES
  \* ---- generator (generateConfigurations and its caller) ----
  gPc,          \* "cli" | "ready" | "rejected" | "returned" | "threw" | "hung"
  gBase,        \* the baseConfig object handed to generateConfigurations
  gVariations,  \* the VariationParams handed to generateConfigurations
  gHeap,        \* the searchQueries / fullTextSearch / fuzzySearch objects
  gBaseBefore,  \* deep value of the base configuration when the call started
  gOut,         \* what generateConfigurations produced
  gExtract,     \* what extractChartInfo returned for one generated configuration
  gArgs         \* the command line of campaign-cli (entry |-> "api" when the
                \* generator is called directly, as the tests do)

gvars == <<gPc, gBase, gVariations, gHeap, gBaseBefore, gOut, gExtract, gArgs>>

VARIABLES
  \* ---- campaign runner (runCampaign and executeConfiguration) ----
  cPc,            \* "init" | "configLoop" | "repetitionLoop" | "awaiting" |
                  \* "returned" | "threw" | "hung"
  cCampaign,      \* the CampaignConfig: base configuration, variations, repetitions
  cConfigs,       \* configurations
  cTotalRuns,     \* totalRuns
  cConfigIndex,   \* configIndex of runCampaign's loop (0-based, as in the code)
  cRepetition,    \* repetition of executeConfiguration's loop (1-based, as in the code)
  cLocal,         \* completedRuns and failedRuns of the running executeConfiguration
  cCompletedRuns, \* completedRuns of runCampaign
  cFailedRuns,    \* failedRuns of runCampaign
  cResults,       \* results
  cInFlight,      \* invocations of benchmarkRunner that have not concluded
  cLog,           \* every start and conclusion of an invocation, in order
  cResult         \* the CampaignResult returned

cvars == <<cPc, cCampaign, cConfigs, cTotalRuns, cConfigIndex, cRepetition, cLocal,
           cCompletedRuns, cFailedRuns, cResults, cInFlight, cLog, cResult>>

VARIABLES
  \* ---- result directory, cache file and StreamProcessor ----
  dFiles,         \* names of the files in the result directory
  dMtime,         \* modification time of the result directory
  kCache,         \* the cache file (options.cacheFile)
  pPc,            \* "new" | "checking" | "loading" | "listing" | "processing" |
                  \* "saving" | "writing" | "returning" | "returned" | "threw"
  pOptions,       \* this.options
  pAggregations,  \* this.aggregations
  pFiles,         \* files of processAllResults
  pNext,          \* position in files of the next chunk (1-based)
  pPending,       \* positions in files whose processFile awaits its read
  pReads,         \* the result files whose read this call has started, in order
  pCheck,         \* what isCacheValid saw: the cache file, the directory time
  pSave,          \* what saveToCache did: the reads before it, its stat, its write
  pReturn,        \* the map processAllResults resolved with
  pCalls,         \* calls of processAllResults made so far
  pHistory,       \* one entry per call of loadChartData: the directory time when
                  \* it started and ended, its outcome, its ChartData, its reads
  pDone           \* the files whose processFile has run to its end, in that order

avars == <<dFiles, dMtime, kCache, pPc, pOptions, pAggregations, pFiles, pNext,
           pPending, pReads, pCheck, pSave, pReturn, pCalls, pHistory,
           pDone>>

VARIABLES
  \* ---- calculateStats ----
  sPc,            \* "collecting" | "computed"
  sValues,        \* the series of samples
  sStats          \* the statistics calculateStats returned for it

svars == <<sPc, sValues, sStats>>

vars == <<gvars, cvars, avars, svars>>

\* each part of the program is checked on its own: the others stay idle
GenIdle ==
  /\ gPc = "idle" /\ gBase = <<>> /\ gVariations = <<>> /\ gHeap = <<>>
  /\ gBaseBefore = <<>> /\ gOut = <<>> /\ gExtract = <<>> /\ gArgs = <<>>

CampaignIdle ==
  /\ cPc = "idle" /\ cCampaign = <<>> /\ cConfigs = <<>> /\ cTotalRuns = 0
  /\ cConfigIndex = 0 /\ cRepetition = 0 /\ cLocal = <<>> /\ cCompletedRuns = 0
  /\ cFailedRuns = 0 /\ cResults = <<>> /\ cInFlight = 0 /\ cLog = <<>>
  /\ cResult = <<>>

StatsIdle == sPc = "idle" /\ sValues = <<>> /\ sStats = <<>>

AggIdle ==
  /\ dFiles = {} /\ dMtime = 0 /\ kCache = <<>> /\ pPc = "idle" /\ pOptions = <<>>
  /\ pAggregations = <<>> /\ pFiles = <<>> /\ pNext = 0 /\ pPending = {}
  /\ pReads = <<>> /\ pCheck = <<>> /\ pSave = <<>> /\ pReturn = <<>> /\ pCalls = 0
  /\ pHistory = <<>> /\ pDone = <<>>

----------------------------------------------------------------------------
(* Bounds of the model *)

\* a numeric sweep of the model has at most MaxSteps + 1 values
MaxSteps == 4
\* an enumerated sweep lists at most MaxValues values
MaxValues == 3

----------------------------------------------------------------------------
(* JavaScript values *)

Num(n) == [t |-> "num", n |-> n, s |-> ""]
Str(s) == [t |-> "str", n |-> 0, s |-> s]
Undefined == [t |-> "undefined", n |-> 0, s |-> ""]

\* Number.prototype.toString for integers, String for strings
toString(v) == IF v.t = "str" THEN v.s ELSE ToString(v.n)

\* String.prototype.includes
includes(str, pat) ==
  \E i \in 1..(Len(str) - Len(pat) + 1) : SubSeq(str, i, i + Len(pat) - 1) = pat

Range(seq) == {seq[i] : i \in DOMAIN seq}

RECURSIVE SumWordCount(_)
SumWordCount(fields) ==
  IF fields = <<>> THEN 0
  ELSE Head(fields).wordCount + SumWordCount(Tail(fields))

----------------------------------------------------------------------------
(* generator/product-structure *)

\* throws when the field count exceeds the word count (or either is negative)
validateProductStructureConfig(structureConfig) ==
  /\ structureConfig.additionalFields >= 0
  /\ structureConfig.totalWords >= 0
  /\ structureConfig.additionalFields <= structureConfig.totalWords

\* "name" plus additionalFields text fields sharing totalWords; one additional
\* field is called "description", several are field1..fieldN, and the last
\* field takes the remainder of the division
generateProductStructure(structureConfig) ==
  LET n == structureConfig.additionalFields
      w == structureConfig.totalWords
      fieldName(i) == IF n = 1 THEN "description" ELSE "field" \o ToString(i)
      words(i) == IF i = n THEN w - (n - 1) * (w \div n) ELSE w \div n
  IN  <<[name |-> "name", wordCount |-> 0]>> \o
      [i \in 1..n |-> [name |-> fieldName(i), wordCount |-> words(i)]]

(* config/dynamic-index-configs *)

IsSearchableField(field) == field.name # "name" /\ field.wordCount > 0

getSearchableFields(productStructure) ==
  LET kept == SelectSeq(productStructure, IsSearchableField)
  IN  [i \in 1..Len(kept) |-> kept[i].name] \o <<"name">>

IsAdditionalField(field) == field.name # "name"

----------------------------------------------------------------------------
(* campaign/config-generator *)

\* the loop  for (value = min; value <= max; value += increment)  never ends
\* when the value cannot pass max
NumericLoopEnds(min, max, increment) == min > max \/ increment > 0

RECURSIVE generateNumericValuesFrom(_, _, _)
generateNumericValuesFrom(value, max, increment) ==
  IF value <= max
  THEN <<Num(value)>> \o generateNumericValuesFrom(value + increment, max, increment)
  ELSE <<>>

\* the loop with an exclusive upper bound (value < max)
generateNumericValuesExclusive(min, max, increment) ==
  generateNumericValuesFrom(min, max - 1, increment)

generateNumericValues(min, max, increment) ==
  generateNumericValuesFrom(min, max, increment)

generateIndexTypeValues == <<Str("standard"), Str("ngram"), Str("stemming")>>

SupportedVariables ==
  { "numberOfBatches", "documentsPerBatch", "descriptionWordLength",
    "additionalFields", "totalWords", "indexType", "numberOfUpdateBatches",
    "documentsPerUpdateBatch", "fuzziness" }

\* config.searchQueries.fullTextSearch.fields = fields and
\* config.searchQueries.fuzzySearch.field = fields[0] || "name":
\* both assignments write into the objects the configuration points to
SetSearchFields(heap, config, fields) ==
  LET sq == heap.sq[config.searchQueries]
  IN  [heap EXCEPT !.fts[sq.fullTextSearch].fields = fields,
                   !.fz[sq.fuzzySearch].field =
                      IF fields[1] # "" THEN fields[1] ELSE "name"]

\* config.searchQueries = {...config.searchQueries,
\*   fuzzySearch: {...config.searchQueries.fuzzySearch, fuzziness: value}}
\* allocates a new fuzzySearch object and a new searchQueries object
SpreadFuzziness(heap, config, value) ==
  LET sq    == heap.sq[config.searchQueries]
      newFz == [heap.fz[sq.fuzzySearch] EXCEPT !.fuzziness = value]
      newSq == [sq EXCEPT !.fuzzySearch = Len(heap.fz) + 1]
  IN  [heap EXCEPT !.fz = Append(heap.fz, newFz), !.sq = Append(heap.sq, newSq)]

\* the result of one applyVariationToConfig call: the configuration built (or
\* the throw) and the heap it leaves behind
Applied(heap, config)  == [threw |-> FALSE, heap |-> heap, config |-> config]
ApplyThrew(heap, base) == [threw |-> TRUE, heap |-> heap, config |-> base]

applyVariationSwitch(heap, config, variable, value) ==
  CASE variable = "numberOfBatches" ->
         Applied(heap, [config EXCEPT !.numberOfBatches = value])
    [] variable = "documentsPerBatch" ->
         Applied(heap, [config EXCEPT !.documentsPerBatch = value])
    [] variable = "descriptionWordLength" ->
         LET newLegacyStructure ==
               generateProductStructure([additionalFields |-> 1, totalWords |-> value.n])
             legacySearchableFields == getSearchableFields(newLegacyStructure)
         IN  Applied(SetSearchFields(heap, config, legacySearchableFields),
                     [config EXCEPT !.productStructure =
                        [present |-> TRUE, fields |-> newLegacyStructure]])
    [] variable = "additionalFields" ->
         LET currentTotalWords ==
               IF config.productStructure.present
               THEN SumWordCount(config.productStructure.fields) ELSE 10
             newStructureConfig ==
               [additionalFields |-> value.n, totalWords |-> currentTotalWords]
             newStructure == generateProductStructure(newStructureConfig)
         IN  IF ~validateProductStructureConfig(newStructureConfig)
             THEN ApplyThrew(heap, config)
             ELSE Applied(SetSearchFields(heap, config, getSearchableFields(newStructure)),
                          [config EXCEPT !.productStructure =
                             [present |-> TRUE, fields |-> newStructure]])
    [] variable = "totalWords" ->
         LET currentAdditionalFields ==
               IF config.productStructure.present
               THEN Len(SelectSeq(config.productStructure.fields, IsAdditionalField))
               ELSE 1
             newWordStructureConfig ==
               [additionalFields |-> currentAdditionalFields, totalWords |-> value.n]
         IN  IF ~validateProductStructureConfig(newWordStructureConfig)
             THEN ApplyThrew(heap, config)
             ELSE Applied(heap,
                          [config EXCEPT !.productStructure =
                             [present |-> TRUE,
                              fields |-> generateProductStructure(newWordStructureConfig)]])
    [] variable = "indexType" ->
         Applied(heap, [config EXCEPT !.indexType = value])
    [] variable = "numberOfUpdateBatches" ->
         Applied(heap, [config EXCEPT !.updateConfig.numberOfUpdateBatches = value])
    [] variable = "documentsPerUpdateBatch" ->
         Applied(heap, [config EXCEPT !.updateConfig.documentsPerUpdateBatch = value])
    [] variable = "fuzziness" ->
         Applied(SpreadFuzziness(heap, config, value),
                 [config EXCEPT !.searchQueries = Len(heap.sq) + 1])
    [] OTHER -> ApplyThrew(heap, config)

\* a label that leaves the variable out
VariationIndexNameNoVariable(baseConfig, variable, value) ==
  baseConfig.indexName \o "-" \o toString(value)

\* the label of a generated configuration
\* `${baseConfig.indexName}-${variable}-${suffix}`
VariationIndexName(baseConfig, variable, value) ==
  baseConfig.indexName \o "-" \o variable \o "-" \o toString(value)

applyVariationToConfig(heap, baseConfig, variable, value) ==
  LET r == applyVariationSwitch(heap, baseConfig, variable, value)
  IN  IF r.threw THEN r
      ELSE [r EXCEPT !.config.indexName =
                        VariationIndexName(baseConfig, variable, value)]

\* variationValues.map(value => applyVariationToConfig(baseConfig, variable, value)):
\* left to right on one heap, stopping at the first throw
RECURSIVE MapApply(_, _, _, _, _)
MapApply(heap, baseConfig, variable, values, done) ==
  IF values = <<>>
  THEN [kind |-> "returned", configs |-> done, heap |-> heap]
  ELSE LET r == applyVariationToConfig(heap, baseConfig, variable, Head(values))
       IN  IF r.threw
           THEN [kind |-> "threw", configs |-> <<>>, heap |-> r.heap]
           ELSE MapApply(r.heap, baseConfig, variable, Tail(values),
                         Append(done, r.config))

\* the listed values honoured for indexType only, the range used otherwise
generateConfigurationsRangeFirst(heap, baseConfig, variations) ==
  IF variations.variable = "indexType"
  THEN MapApply(heap, baseConfig, variations.variable,
                IF variations.hasValues THEN variations.values
                ELSE generateIndexTypeValues, <<>>)
  ELSE IF ~NumericLoopEnds(variations.min, variations.max, variations.increment)
  THEN [kind |-> "hung", configs |-> <<>>, heap |-> heap]
  ELSE MapApply(heap, baseConfig, variations.variable,
                generateNumericValues(variations.min, variations.max,
                                      variations.increment), <<>>)

generateConfigurations(heap, baseConfig, variations) ==
  IF variations.hasValues
  THEN MapApply(heap, baseConfig, variations.variable, variations.values, <<>>)
  ELSE IF variations.variable = "indexType"
  THEN MapApply(heap, baseConfig, variations.variable, generateIndexTypeValues, <<>>)
  ELSE IF ~NumericLoopEnds(variations.min, variations.max, variations.increment)
  THEN [kind |-> "hung", configs |-> <<>>, heap |-> heap]
  ELSE MapApply(heap, baseConfig, variations.variable,
                generateNumericValues(variations.min, variations.max,
                                      variations.increment), <<>>)

----------------------------------------------------------------------------
(* campaign/config-factory *)

EmptyHeap == [sq |-> <<>>, fts |-> <<>>, fz |-> <<>>]

\* createBaseConfig: validates and generates the product structure and
\* allocates the searchQueries objects
createBaseConfig(options) ==
  LET structureConfig ==
        [additionalFields |-> options.additionalFields, totalWords |-> options.totalWords]
      productStructure == generateProductStructure(structureConfig)
      searchableFields == getSearchableFields(productStructure)
  IN  [threw |-> ~validateProductStructureConfig(structureConfig),
       heap |-> [sq  |-> <<[fullTextSearch |-> 1, fuzzySearch |-> 1]>>,
                 fts |-> <<[fields |-> searchableFields]>>,
                 fz  |-> <<[field |-> searchableFields[1], fuzziness |-> Str("AUTO")]>>],
       config |->
         [indexName |-> options.indexName,
          indexType |-> Str(options.indexType),
          chartName |-> options.chartName,
          productStructure |-> [present |-> TRUE, fields |-> productStructure],
          numberOfBatches |-> Num(options.batches),
          documentsPerBatch |-> Num(options.docsPerBatch),
          updateConfig |->
            [numberOfUpdateBatches |->
               Num(IF options.batches \div 2 > 1 THEN options.batches \div 2 ELSE 1),
             documentsPerUpdateBatch |->
               Num(IF options.docsPerBatch \div 2 > 1 THEN options.docsPerBatch \div 2 ELSE 1)],
          searchQueries |-> 1]]

generateChartName(variable) ==
  CASE variable = "numberOfBatches" -> "Batch Count Scaling"
    [] variable = "documentsPerBatch" -> "Batch Size Scaling"
    [] variable = "descriptionWordLength" -> "Content Length Scaling (in words)"
    [] variable = "additionalFields" -> "Field Count Impact"
    [] variable = "totalWords" -> "Content Length Scaling (words)"
    [] variable = "indexType" -> "Index Type Comparison"
    [] variable = "numberOfUpdateBatches" -> "Update Batch Scaling"
    [] variable = "documentsPerUpdateBatch" -> "Update Batch Size Impact"
    [] variable = "fuzziness" -> "Fuzziness Optimization"
    [] OTHER -> variable \o " Analysis"

\* createCampaignConfig names the chart of a base configuration that has none
createCampaignConfig(baseConfig, variable, min, max, increment, repetitions, hasValues, values) ==
  [baseConfig |->
     IF baseConfig.chartName = ""
     THEN [baseConfig EXCEPT !.chartName = generateChartName(variable)]
     ELSE baseConfig,
   variations |-> [variable |-> variable, min |-> min, max |-> max,
                   increment |-> increment, hasValues |-> hasValues, values |-> values],
   repetitions |-> repetitions]

----------------------------------------------------------------------------
(* cli/campaign-cli *)

\* the error list of validateArgs is empty
validateArgs(args) ==
  /\ args.variable \in SupportedVariables
  /\ args.variable # "indexType" => (args.min < args.max /\ args.increment > 0)
  /\ args.repetitions > 0
  /\ args.additionalFields >= 0
  /\ args.totalWords >= 1
  /\ args.additionalFields <= args.totalWords

----------------------------------------------------------------------------
(* visualization/chart-generator: StreamProcessor.extractChartInfo *)

\* String.prototype.split("-")
RECURSIVE SplitFrom(_, _, _)
SplitFrom(str, i, current) ==
  IF i > Len(str) THEN <<current>>
  ELSE IF SubSeq(str, i, i) = "-" THEN <<current>> \o SplitFrom(str, i + 1, "")
  ELSE SplitFrom(str, i + 1, current \o SubSeq(str, i, i))

split(str) == SplitFrom(str, 1, "")

Digits == <<"0", "1", "2", "3", "4", "5", "6", "7", "8", "9">>

DigitValue(ch) == (CHOOSE d \in 1..10 : Digits[d] = ch) - 1

IsDigits(str) == \A i \in 1..Len(str) : \E d \in 1..10 : Digits[d] = SubSeq(str, i, i)

\* Number(str) of a string of decimal digits; Number("") is 0
RECURSIVE DecimalValue(_, _)
DecimalValue(str, acc) ==
  IF str = "" THEN acc
  ELSE DecimalValue(SubSeq(str, 2, Len(str)), 10 * acc + DigitValue(SubSeq(str, 1, 1)))

\* if (!isNaN(Number(value))) value = Number(value)
NumberIfNumeric(str) == IF IsDigits(str) THEN Num(DecimalValue(str, 0)) ELSE Str(str)

NoChartInfo == [found |-> FALSE, chartName |-> "", variable |-> "", value |-> Undefined]

ChartInfo(chartName, variable, value) ==
  [found |-> TRUE, chartName |-> chartName, variable |-> variable, value |-> value]

\* the positional split taking the second and third segments
extractChartInfoSecondThird(config) ==
  LET indexName == config.indexName
      parts == split(indexName)
  IN  IF config.chartName = "" THEN NoChartInfo
      ELSE IF includes(indexName, "-indexType-")
      THEN ChartInfo(config.chartName, "indexType", config.indexType)
      ELSE IF includes(indexName, "-documentsPerBatch-")
      THEN ChartInfo(config.chartName, "documentsPerBatch", config.documentsPerBatch)
      ELSE IF includes(indexName, "-numberOfBatches-")
      THEN ChartInfo(config.chartName, "numberOfBatches", config.numberOfBatches)
      ELSE IF includes(indexName, "-descriptionWordLength-")
      THEN ChartInfo(config.chartName, "descriptionWordLength", Undefined)
      ELSE IF includes(indexName, "-numberOfUpdateBatches-")
      THEN ChartInfo(config.chartName, "numberOfUpdateBatches",
                     config.updateConfig.numberOfUpdateBatches)
      ELSE IF includes(indexName, "-documentsPerUpdateBatch-")
      THEN ChartInfo(config.chartName, "documentsPerUpdateBatch",
                     config.updateConfig.documentsPerUpdateBatch)
      ELSE IF Len(parts) < 3 THEN NoChartInfo
      ELSE ChartInfo(config.chartName, parts[2], NumberIfNumeric(parts[3]))

\* config is the configuration as the result file carries it
extractChartInfo(config) ==
  LET indexName == config.indexName
      parts == split(indexName)
  IN  IF config.chartName = "" THEN NoChartInfo
      ELSE IF includes(indexName, "-indexType-")
      THEN ChartInfo(config.chartName, "indexType", config.indexType)
      ELSE IF includes(indexName, "-documentsPerBatch-")
      THEN ChartInfo(config.chartName, "documentsPerBatch", config.documentsPerBatch)
      ELSE IF includes(indexName, "-numberOfBatches-")
      THEN ChartInfo(config.chartName, "numberOfBatches", config.numberOfBatches)
      ELSE IF includes(indexName, "-descriptionWordLength-")
      THEN ChartInfo(config.chartName, "descriptionWordLength", Undefined)
      ELSE IF includes(indexName, "-numberOfUpdateBatches-")
      THEN ChartInfo(config.chartName, "numberOfUpdateBatches",
                     config.updateConfig.numberOfUpdateBatches)
      ELSE IF includes(indexName, "-documentsPerUpdateBatch-")
      THEN ChartInfo(config.chartName, "documentsPerUpdateBatch",
                     config.updateConfig.documentsPerUpdateBatch)
      ELSE IF Len(parts) < 4 THEN NoChartInfo
      ELSE ChartInfo(config.chartName, parts[3], NumberIfNumeric(parts[4]))

----------------------------------------------------------------------------
(* The generator as a state machine: a caller (campaign-cli, or a direct    *)
(* caller such as the tests) hands a base configuration and a variation to *)
(* generateConfigurations; one generated configuration is then written to  *)
(* a result file and read back by extractChartInfo.                        *)

\* the configuration with its searchQueries objects read out of the heap
\* (what JSON.stringify writes, what a deep comparison sees)
DeepConfig(heap, config) ==
  LET sq == heap.sq[config.searchQueries]
  IN  [config EXCEPT !.searchQueries =
         [fullTextSearch |-> heap.fts[sq.fullTextSearch],
          fuzzySearch |-> heap.fz[sq.fuzzySearch]]]

\* a base configuration built by hand, without productStructure
\* (the shape of the first createBaseConfig)
LegacyBaseConfig(options) ==
  LET made == createBaseConfig(options)
  IN  [made EXCEPT !.heap.fts[1].fields = <<"name", "description">>,
                   !.heap.fz[1].field = "name",
                   !.config.productStructure = [present |-> FALSE, fields |-> <<>>]]

NumericMins == {-1, 0, 1, 100}
NumericMaxs == {0, 3, 1000}
NumericIncrements == {-1, 0, 1, 2, 300, 400}

\* the numeric ranges of the model: those whose sweep has at most MaxSteps + 1 values
NumericRanges ==
  { r \in [min : NumericMins, max : NumericMaxs, increment : NumericIncrements] :
      (r.increment > 0 /\ r.max >= r.min) => (r.max - r.min) \div r.increment <= MaxSteps }

ListedValues == {Str("standard"), Str("ngram"), Str("5")}

RECURSIVE SeqsUpTo(_, _)
SeqsUpTo(S, n) ==
  IF n = 0 THEN {<<>>}
  ELSE LET shorter == SeqsUpTo(S, n - 1)
       IN  shorter \cup {Append(q, x) : q \in shorter, x \in S}

ValueLists == SeqsUpTo(ListedValues, MaxValues)

\* variables whose value is stored as given; the composite ones compute with it
ScalarVariables ==
  { "numberOfBatches", "documentsPerBatch", "indexType", "numberOfUpdateBatches",
    "documentsPerUpdateBatch", "fuzziness" }

ModelVariables == SupportedVariables \cup {"descriptionLength"}

BaseOptions ==
  { [indexName |-> n, indexType |-> "standard", chartName |-> c, batches |-> 10,
     docsPerBatch |-> 100, additionalFields |-> st[1], totalWords |-> st[2]] :
      n \in {"x", "cli-campaign"}, c \in {"", "Batch Size Scaling"},
      st \in {<<1, 10>>, <<2, 3>>} }

ApiBases ==
  {createBaseConfig(o) : o \in BaseOptions} \cup
  {LegacyBaseConfig(o) : o \in {b \in BaseOptions : b.additionalFields = 1}}

ApiVariations ==
  { [variable |-> v, min |-> r.min, max |-> r.max, increment |-> r.increment,
     hasValues |-> FALSE, values |-> <<>>] : v \in ModelVariables, r \in NumericRanges }
  \cup
  { [variable |-> v, min |-> r.min, max |-> r.max, increment |-> r.increment,
     hasValues |-> TRUE, values |-> l] :
       v \in ScalarVariables \cup {"descriptionLength"}, l \in ValueLists,
       r \in {[min |-> 0, max |-> 0, increment |-> 0],
              [min |-> 100, max |-> 1000, increment |-> 300]} }

ApiArgs ==
  [entry |-> "api", variable |-> "", min |-> 0, max |-> 0, increment |-> 0,
   repetitions |-> 0, additionalFields |-> 0, totalWords |-> 0, chartName |-> ""]

CliArgs ==
  { [entry |-> "cli", variable |-> v, min |-> r.min, max |-> r.max,
     increment |-> r.increment, repetitions |-> rep,
     additionalFields |-> st[1], totalWords |-> st[2], chartName |-> ""] :
       v \in ModelVariables, r \in NumericRanges, rep \in {0, 2},
       st \in {<<1, 10>>, <<3, 2>>} }

NoOut == [kind |-> "none", configs |-> <<>>]
NoExtract == [k |-> 0, info |-> NoChartInfo]
NoVariations ==
  [variable |-> "", min |-> 0, max |-> 0, increment |-> 0,
   hasValues |-> FALSE, values |-> <<>>]

GenInit ==
  /\ CampaignIdle
  /\ AggIdle
  /\ StatsIdle
  /\ gOut = NoOut
  /\ gExtract = NoExtract
  /\ \/ \E b \in ApiBases, v \in ApiVariations :
          /\ gArgs = ApiArgs
          /\ gPc = "ready"
          /\ gBase = b.config
          /\ gHeap = b.heap
          /\ gBaseBefore = DeepConfig(b.heap, b.config)
          /\ gVariations = v
     \/ \E a \in CliArgs :
          /\ gArgs = a
          /\ gPc = "cli"
          /\ gBase = LegacyBaseConfig(CHOOSE o \in BaseOptions : TRUE).config
          /\ gHeap = EmptyHeap
          /\ gBaseBefore = gBase
          /\ gVariations = NoVariations

\* runCLI up to the call of runCampaign: validateArgs, then createBaseConfig
\* and createCampaignConfig; a validation error exits with code 1
RunCLI ==
  /\ gPc = "cli"
  /\ IF validateArgs(gArgs)
     THEN LET finalChartName ==
                IF gArgs.chartName # "" THEN gArgs.chartName
                ELSE generateChartName(gArgs.variable)
              made == createBaseConfig(
                [indexName |-> "cli-campaign-" \o gArgs.variable,
                 indexType |-> "standard", chartName |-> finalChartName,
                 batches |-> 10, docsPerBatch |-> 100,
                 additionalFields |-> gArgs.additionalFields,
                 totalWords |-> gArgs.totalWords])
              campaignConfig ==
                createCampaignConfig(made.config, gArgs.variable, gArgs.min, gArgs.max,
                  gArgs.increment, gArgs.repetitions, gArgs.variable = "indexType",
                  IF gArgs.variable = "indexType" THEN generateIndexTypeValues ELSE <<>>)
          IN  /\ gPc' = "ready"
              /\ gBase' = campaignConfig.baseConfig
              /\ gHeap' = made.heap
              /\ gBaseBefore' = DeepConfig(made.heap, campaignConfig.baseConfig)
              /\ gVariations' = campaignConfig.variations
     ELSE /\ gPc' = "rejected"
          /\ UNCHANGED <<gBase, gHeap, gBaseBefore, gVariations>>
  /\ UNCHANGED <<gOut, gExtract, gArgs, cvars, avars, svars>>

\* const configurations = generateConfigurations(baseConfig, variations)
CallGenerate ==
  /\ gPc = "ready"
  /\ LET out == generateConfigurations(gHeap, gBase, gVariations)
     IN  /\ gPc' = out.kind
         /\ gOut' = [kind |-> out.kind, configs |-> out.configs]
         /\ gHeap' = out.heap
  /\ UNCHANGED <<gBase, gVariations, gBaseBefore, gExtract, gArgs, cvars, avars, svars>>

\* processFile on the result file of a run of configuration k:
\* extractChartInfo(result) with result.config the configuration as saved
ExtractFromResult ==
  /\ gPc = "returned"
  /\ gExtract.k = 0
  /\ \E k \in 1..Len(gOut.configs) :
       gExtract' = [k |-> k, info |-> extractChartInfo(DeepConfig(gHeap, gOut.configs[k]))]
  /\ UNCHANGED <<gPc, gBase, gVariations, gHeap, gBaseBefore, gOut, gArgs, cvars, avars, svars>>

GenNext == RunCLI \/ CallGenerate \/ ExtractFromResult

SpecGen == GenInit /\ [][GenNext]_vars

----------------------------------------------------------------------------
(* Properties of the generator *)

\* the value a generated configuration holds for the swept variable
SweptValue(heap, config, variable) ==
  CASE variable = "numberOfBatches" -> config.numberOfBatches
    [] variable = "documentsPerBatch" -> config.documentsPerBatch
    [] variable = "descriptionWordLength" ->
         Num(SumWordCount(config.productStructure.fields))
    [] variable = "additionalFields" ->
         Num(Len(SelectSeq(config.productStructure.fields, IsAdditionalField)))
    [] variable = "totalWords" -> Num(SumWordCount(config.productStructure.fields))
    [] variable = "indexType" -> config.indexType
    [] variable = "numberOfUpdateBatches" -> config.updateConfig.numberOfUpdateBatches
    [] variable = "documentsPerUpdateBatch" -> config.updateConfig.documentsPerUpdateBatch
    [] variable = "fuzziness" ->
         heap.fz[heap.sq[config.searchQueries].fuzzySearch].fuzziness
    [] OTHER -> Undefined

GenCalled == gOut.kind # "none"

\* a numeric sweep: no values list, and not the indexType axis
IsNumericSweep ==
  /\ ~gVariations.hasValues
  /\ gVariations.variable \in SupportedVariables \ {"indexType"}

ValidRange == gVariations.min < gVariations.max /\ gVariations.increment > 0

\* C4 as stated: every valid numeric sweep (min < max, increment > 0) returns
\* floor((max - min) / increment) + 1 configurations, the configuration at
\* position k (0-based) holding min + k * increment in the swept field
C4_NumericSweepAlwaysReturns ==
  (GenCalled /\ IsNumericSweep /\ ValidRange) =>
     /\ gOut.kind = "returned"
     /\ Len(gOut.configs) =
          (gVariations.max - gVariations.min) \div gVariations.increment + 1
     /\ \A k \in 1..Len(gOut.configs) :
          SweptValue(gHeap, gOut.configs[k], gVariations.variable) =
            Num(gVariations.min + (k - 1) * gVariations.increment)

\* C4 (amended): a valid numeric sweep (min < max, increment > 0) that the
\* call returns from yields floor((max - min) / increment) + 1 configurations,
\* the configuration at position k (0-based) holding min + k * increment in
\* the swept field; the only valid sweeps that return no list are
\* additionalFields and totalWords sweeps that the product-structure
\* validation rejects with an error
C4_NumericSweepValues ==
  (GenCalled /\ IsNumericSweep /\ ValidRange) =>
     /\ gOut.kind = "returned" =>
          /\ Len(gOut.configs) =
               (gVariations.max - gVariations.min) \div gVariations.increment + 1
          /\ \A k \in 1..Len(gOut.configs) :
               SweptValue(gHeap, gOut.configs[k], gVariations.variable) =
                 Num(gVariations.min + (k - 1) * gVariations.increment)
     /\ gOut.kind # "returned" =>
          /\ gOut.kind = "threw"
          /\ gVariations.variable \in {"additionalFields", "totalWords"}

C4_Witness ==
  /\ gOut.kind = "returned"
  /\ gVariations = [variable |-> "documentsPerBatch", min |-> 100, max |-> 1000,
                    increment |-> 300, hasValues |-> FALSE, values |-> <<>>]
  /\ Len(gOut.configs) = 4
  /\ gOut.configs[4].documentsPerBatch = Num(1000)

\* C5: a numeric sweep with min >= max or increment <= 0 is rejected with an
\* error: the call neither returns a list nor loops
C5_InvalidRangeRejected ==
  (GenCalled /\ IsNumericSweep /\ ~ValidRange) => gOut.kind = "threw"

C7_UniqueLabels ==
  gOut.kind = "returned" =>
    \A i, j \in 1..Len(gOut.configs) :
      i # j => gOut.configs[i].indexName # gOut.configs[j].indexName

\* the configuration generated for documentsPerBatch, value 500, base label x
\* has been written to a result file and read back
RoundTripCase ==
  /\ gExtract.k # 0
  /\ gVariations.variable = "documentsPerBatch"
  /\ gBaseBefore.indexName = "x"
  /\ gOut.configs[gExtract.k].documentsPerBatch = Num(500)

\* C8 as stated: the label is x-documentsPerBatch-500 and extraction returns
\* variable documentsPerBatch and value 500
C8_RoundTripAlways ==
  RoundTripCase =>
    /\ gOut.configs[gExtract.k].indexName = "x-documentsPerBatch-500"
    /\ gExtract.info = ChartInfo(gBaseBefore.chartName, "documentsPerBatch", Num(500))
    /\ gExtract.info.found

\* C8 (amended): the label is x-documentsPerBatch-500; extraction returns
\* variable documentsPerBatch and value 500 when the configuration carries a
\* chartName, and nothing when it carries none
C8_RoundTrip ==
  RoundTripCase =>
    /\ gOut.configs[gExtract.k].indexName = "x-documentsPerBatch-500"
    /\ gBaseBefore.chartName # "" =>
         gExtract.info = ChartInfo(gBaseBefore.chartName, "documentsPerBatch", Num(500))
    /\ gBaseBefore.chartName = "" => gExtract.info = NoChartInfo

C8_Witness ==
  /\ RoundTripCase
  /\ gBaseBefore.chartName = "Batch Size Scaling"
  /\ gExtract.info.found
  /\ gExtract.info.value = Num(500)

\* C9: after a call the base configuration, nested objects included, is what
\* it was before the call
C9_BaseUnchanged ==
  GenCalled => DeepConfig(gHeap, gBase) = gBaseBefore

----------------------------------------------------------------------------
(* campaign/runner: runCampaign and executeConfiguration *)

\* the bounds of the campaigns of the model
MaxConfigs == 2
MaxRepetitions == 2

\* an invocation of benchmarkRunner resolves with a string (the result file's
\* path), resolves with something else, or rejects: the "end" entry of cLog
\* records which

CampaignBase == createBaseConfig(
  [indexName |-> "campaign-test", indexType |-> "standard", chartName |-> "",
   batches |-> 10, docsPerBatch |-> 100, additionalFields |-> 1, totalWords |-> 10])

\* sweeps of 0..MaxConfigs configurations, the indexType axis, a sweep the
\* product-structure validation rejects and a sweep whose loop never ends
CampaignVariations ==
  { [variable |-> "documentsPerBatch", min |-> 100, max |-> 100 + 300 * (n - 1),
     increment |-> 300, hasValues |-> FALSE, values |-> <<>>] : n \in 0..MaxConfigs }
  \cup
  { [variable |-> "indexType", min |-> 0, max |-> 0, increment |-> 0,
     hasValues |-> TRUE, values |-> generateIndexTypeValues],
    [variable |-> "additionalFields", min |-> 1, max |-> 1000, increment |-> 300,
     hasValues |-> FALSE, values |-> <<>>],
    [variable |-> "documentsPerBatch", min |-> 100, max |-> 1000, increment |-> 0,
     hasValues |-> FALSE, values |-> <<>>] }

\* repetitions is a count: campaign-cli rejects a value <= 0, and 0 is kept
\* here for the campaign that runs nothing
CampaignInit ==
  /\ GenIdle
  /\ AggIdle
  /\ StatsIdle
  /\ cPc = "init"
  /\ \E v \in CampaignVariations, repetitions \in 0..MaxRepetitions :
       cCampaign = createCampaignConfig(CampaignBase.config, v.variable, v.min, v.max,
                     v.increment, repetitions, v.hasValues, v.values)
  /\ cConfigs = <<>> /\ cTotalRuns = 0
  /\ cConfigIndex = 0 /\ cRepetition = 0
  /\ cLocal = [completedRuns |-> 0, failedRuns |-> 0]
  /\ cCompletedRuns = 0 /\ cFailedRuns = 0
  /\ cResults = <<>> /\ cInFlight = 0 /\ cLog = <<>>
  /\ cResult = <<>>

\* const totalRuns = configurations.length * campaignConfig.repetitions
TotalRuns(configurations, repetitions) == Len(configurations) * repetitions

\* runCampaign up to its loop: generateConfigurations is called outside the
\* try block, so its throw leaves runCampaign at once
StartCampaign ==
  /\ cPc = "init"
  /\ LET out == generateConfigurations(CampaignBase.heap, cCampaign.baseConfig,
                                       cCampaign.variations)
     IN  /\ cPc' = IF out.kind = "returned" THEN "configLoop" ELSE out.kind
         /\ cConfigs' = [k \in 1..Len(out.configs) |-> DeepConfig(out.heap, out.configs[k])]
         /\ cTotalRuns' = TotalRuns(out.configs, cCampaign.repetitions)
  /\ UNCHANGED <<cCampaign, cConfigIndex, cRepetition, cLocal, cCompletedRuns,
                 cFailedRuns, cResults, cInFlight, cLog, cResult, gvars, avars, svars>>

\* configIndex < configurations.length: executeConfiguration starts with its
\* own counters at 0 and repetition at 1
EnterConfiguration ==
  /\ cPc = "configLoop"
  /\ cConfigIndex < Len(cConfigs)
  /\ cPc' = "repetitionLoop"
  /\ cLocal' = [completedRuns |-> 0, failedRuns |-> 0]
  /\ cRepetition' = 1
  /\ UNCHANGED <<cCampaign, cConfigs, cTotalRuns, cConfigIndex, cCompletedRuns,
                 cFailedRuns, cResults, cInFlight, cLog, cResult, gvars, avars, svars>>

\* the invocation started without awaiting the previous one
MayInvokeRunnerNoAwait == cPc \in {"repetitionLoop", "awaiting"}

\* the invocation may start: executeConfiguration is at the head of its loop,
\* that is, the await of the previous invocation is over
MayInvokeRunner == cPc = "repetitionLoop"

\* repetition <= campaignConfig.repetitions: await benchmarkRunner(config)
StartRun ==
  /\ MayInvokeRunner
  /\ cRepetition <= cCampaign.repetitions
  /\ cPc' = "awaiting"
  /\ cInFlight' = cInFlight + 1
  /\ cLog' = Append(cLog, [event |-> "start", config |-> cConfigIndex,
                             repetition |-> cRepetition, outcome |-> ""])
  /\ UNCHANGED <<cCampaign, cConfigs, cTotalRuns, cConfigIndex, cRepetition, cLocal,
                 cCompletedRuns, cFailedRuns, cResults, cResult, gvars, avars, svars>>

\* the reference the runner returns for a run (a file path unique to the run)
ResultRef(configIndex, repetition) == <<configIndex, repetition>>

\* the invocation resolves: completedRuns++, and results.push(result) when
\* the result is a string
RunSucceeds ==
  /\ cPc = "awaiting"
  /\ \E outcome \in {"string", "other"} :
       /\ cResults' = IF outcome = "string"
                      THEN Append(cResults, ResultRef(cConfigIndex, cRepetition))
                      ELSE cResults
       /\ cLog' = Append(cLog, [event |-> "end", config |-> cConfigIndex,
                                  repetition |-> cRepetition, outcome |-> outcome])
  /\ cLocal' = [cLocal EXCEPT !.completedRuns = @ + 1]
  /\ cInFlight' = cInFlight - 1
  /\ cRepetition' = cRepetition + 1
  /\ cPc' = "repetitionLoop"
  /\ UNCHANGED <<cCampaign, cConfigs, cTotalRuns, cConfigIndex, cCompletedRuns,
                 cFailedRuns, cResult, gvars, avars, svars>>

\* the catch block counts the failure and runs the same repetition again
RunFailsRetries ==
  /\ cPc = "awaiting"
  /\ cLocal' = [cLocal EXCEPT !.failedRuns = @ + 1]
  /\ cInFlight' = cInFlight - 1
  /\ cLog' = Append(cLog, [event |-> "end", config |-> cConfigIndex,
                             repetition |-> cRepetition, outcome |-> "rejects"])
  /\ cPc' = "repetitionLoop"
  /\ UNCHANGED <<cCampaign, cConfigs, cTotalRuns, cConfigIndex, cRepetition,
                 cCompletedRuns, cFailedRuns, cResults, cResult, gvars, avars, svars>>

\* the catch block counts the failure and pushes a reference all the same
RunFailsPushesResult ==
  /\ cPc = "awaiting"
  /\ cLocal' = [cLocal EXCEPT !.failedRuns = @ + 1]
  /\ cInFlight' = cInFlight - 1
  /\ cResults' = Append(cResults, ResultRef(cConfigIndex, cRepetition))
  /\ cLog' = Append(cLog, [event |-> "end", config |-> cConfigIndex,
                             repetition |-> cRepetition, outcome |-> "rejects"])
  /\ cRepetition' = cRepetition + 1
  /\ cPc' = "repetitionLoop"
  /\ UNCHANGED <<cCampaign, cConfigs, cTotalRuns, cConfigIndex, cCompletedRuns,
                 cFailedRuns, cResult, gvars, avars, svars>>

\* the invocation rejects: the catch block counts it, the loop goes on
RunFails ==
  /\ cPc = "awaiting"
  /\ cLocal' = [cLocal EXCEPT !.failedRuns = @ + 1]
  /\ cInFlight' = cInFlight - 1
  /\ cLog' = Append(cLog, [event |-> "end", config |-> cConfigIndex,
                             repetition |-> cRepetition, outcome |-> "rejects"])
  /\ cRepetition' = cRepetition + 1
  /\ cPc' = "repetitionLoop"
  /\ UNCHANGED <<cCampaign, cConfigs, cTotalRuns, cConfigIndex, cCompletedRuns,
                 cFailedRuns, cResults, cResult, gvars, avars, svars>>

\* runCampaign adds the completed runs of the configuration and forgets the
\* failed ones
LeaveConfigurationDropsFailed ==
  /\ cPc = "repetitionLoop"
  /\ cRepetition > cCampaign.repetitions
  /\ cCompletedRuns' = cCompletedRuns + cLocal.completedRuns
  /\ cConfigIndex' = cConfigIndex + 1
  /\ cPc' = "configLoop"
  /\ UNCHANGED <<cCampaign, cConfigs, cTotalRuns, cRepetition, cLocal, cResults,
                 cFailedRuns, cInFlight, cLog, cResult, gvars, avars, svars>>

\* executeConfiguration returns its counters; runCampaign adds them to its own
\* and moves to the next configuration
LeaveConfiguration ==
  /\ cPc = "repetitionLoop"
  /\ cRepetition > cCampaign.repetitions
  /\ cCompletedRuns' = cCompletedRuns + cLocal.completedRuns
  /\ cFailedRuns' = cFailedRuns + cLocal.failedRuns
  /\ cConfigIndex' = cConfigIndex + 1
  /\ cPc' = "configLoop"
  /\ UNCHANGED <<cCampaign, cConfigs, cTotalRuns, cRepetition, cLocal, cResults,
                 cInFlight, cLog, cResult, gvars, avars, svars>>

\* the loop is over: the CampaignResult is built and returned
ReturnCampaign ==
  /\ cPc = "configLoop"
  /\ cConfigIndex >= Len(cConfigs)
  /\ cResult' = [totalRuns |-> cTotalRuns, completedRuns |-> cCompletedRuns,
                 failedRuns |-> cFailedRuns, configurations |-> cConfigs,
                 results |-> cResults]
  /\ cPc' = "returned"
  /\ UNCHANGED <<cCampaign, cConfigs, cTotalRuns, cConfigIndex, cRepetition, cLocal,
                 cCompletedRuns, cFailedRuns, cResults, cInFlight, cLog, gvars, avars, svars>>

CampaignNext ==
  \/ StartCampaign \/ EnterConfiguration \/ StartRun \/ RunSucceeds \/ RunFails
  \/ LeaveConfiguration \/ ReturnCampaign

SpecCampaign == CampaignInit /\ [][CampaignNext]_vars

----------------------------------------------------------------------------
(* Properties of the campaign runner *)

\* the (configIndex, repetition) pairs of the campaign
CampaignPairs == (0..(Len(cConfigs) - 1)) \X (1..cCampaign.repetitions)

LogEntries(event) == {i \in 1..Len(cLog) : cLog[i].event = event}

StartsOf(pair) ==
  {i \in LogEntries("start") : cLog[i].config = pair[1] /\ cLog[i].repetition = pair[2]}

EndsWith(outcomes) == {i \in LogEntries("end") : cLog[i].outcome \in outcomes}

C2_NoRetryNoAbort ==
  /\ \A p \in CampaignPairs : Cardinality(StartsOf(p)) <= 1
  /\ cFailedRuns + (IF cPc \in {"repetitionLoop", "awaiting"} THEN cLocal.failedRuns ELSE 0)
       = Cardinality(EndsWith({"rejects"}))
  /\ cPc = "returned" =>
       /\ \A p \in CampaignPairs : Cardinality(StartsOf(p)) = 1
       /\ Cardinality(LogEntries("start")) = Len(cConfigs) * cCampaign.repetitions
       /\ cResult.failedRuns = Cardinality(EndsWith({"rejects"}))
  /\ cPc \in {"threw", "hung"} => cLog = <<>>

\* a run failed and a later pair was still invoked; the campaign returned
C2_Witness ==
  /\ cPc = "returned"
  /\ \E i \in EndsWith({"rejects"}) : \E j \in LogEntries("start") : j > i
  /\ cResult.failedRuns = 2
  /\ cResult.completedRuns = 2

\* the position of a pair in configuration-major order
PairRank(config, repetition) == config * cCampaign.repetitions + repetition

\* C3: at most one invocation is in flight; starts and conclusions alternate
\* in the log, each conclusion being that of the invocation started just
\* before it; and the k-th invocation started is the k-th pair in
\* configuration-major order
C3_SequentialConfigMajor ==
  /\ cInFlight <= 1
  /\ \A i \in 1..Len(cLog) :
       /\ cLog[i].event = (IF i % 2 = 1 THEN "start" ELSE "end")
       /\ i % 2 = 0 =>
            /\ cLog[i].config = cLog[i - 1].config
            /\ cLog[i].repetition = cLog[i - 1].repetition
       /\ i % 2 = 1 => PairRank(cLog[i].config, cLog[i].repetition) = (i + 1) \div 2

\* the first repetition of the second configuration has started
C3_Witness ==
  /\ cPc = "awaiting"
  /\ cInFlight = 1
  /\ cConfigIndex = 1
  /\ cRepetition = 1
  /\ cCampaign.repetitions = 2
  /\ Len(cLog) = 5

----------------------------------------------------------------------------
(* visualization/chart-generator: the StreamProcessor's aggregation         *)
(*                                                                         *)
(* A Map is the sequence of its entries in insertion order.  A plain        *)
(* object (what JSON carries) is the sequence of its properties in          *)
(* property order: integer keys ascending, then the others as inserted.     *)

\* bounds of the aggregator
\* processAllResults is called at most MaxCalls times, each on a new processor
MaxCalls == 2
\* result files that appear in the directory while the model runs
MaxAdds == 1
\* samples in a series given to calculateStats on its own
MaxSeries == 3

\* maxParallel: options.maxParallel || 6
DefaultMaxParallel == 6

\* ToPropertyKey of a Map key
PropertyKey(v) == IF v.t = "undefined" THEN "undefined" ELSE toString(v)

\* a canonical array index: integer keys of an object come first, ascending
IsArrayIndex(key) ==
  /\ Len(key) > 0
  /\ IsDigits(key)
  /\ key = "0" \/ SubSeq(key, 1, 1) # "0"

HasProperty(obj, key) == \E i \in 1..Len(obj) : obj[i].key = key

\* obj[key] = value on a plain object
SetProperty(obj, key, value) ==
  IF HasProperty(obj, key)
  THEN [i \in 1..Len(obj) |-> IF obj[i].key = key THEN [key |-> key, value |-> value]
                               ELSE obj[i]]
  ELSE LET before(i) ==
             IsArrayIndex(key) =>
               /\ IsArrayIndex(obj[i].key)
               /\ DecimalValue(obj[i].key, 0) < DecimalValue(key, 0)
           n == Cardinality({i \in 1..Len(obj) : before(i)})
       IN  SubSeq(obj, 1, n) \o <<[key |-> key, value |-> value]>> \o
           SubSeq(obj, n + 1, Len(obj))

\* Object.fromEntries(map)
RECURSIVE ObjectFromEntries(_, _)
ObjectFromEntries(entries, obj) ==
  IF entries = <<>> THEN obj
  ELSE ObjectFromEntries(Tail(entries),
                         SetProperty(obj, PropertyKey(Head(entries).key), Head(entries).value))

\* new Map(Object.entries(obj)): the keys are strings
MapFromObject(obj) == [i \in 1..Len(obj) |-> [key |-> Str(obj[i].key), value |-> obj[i].value]]

RECURSIVE GCD(_, _)
GCD(a, b) == IF b = 0 THEN a ELSE GCD(b, a % b)

\* the number num / den (den > 0, num >= 0)
Quotient(num, den) ==
  LET g == GCD(num, den) IN [num |-> num \div g, den |-> den \div g]

RECURSIVE SumSearchTimeMs(_)
SumSearchTimeMs(results) ==
  IF results = <<>> THEN 0 ELSE Head(results) + SumSearchTimeMs(Tail(results))

\* searchMetrics: hasAverages tells whether both averages are defined; the
\* result lists hold the searchTimeMs of each search
calculateSearchAverage(result) ==
  LET searchMetrics == result.searchMetrics
      fullText == searchMetrics.fullTextSearchResults
      fuzzy == searchMetrics.fuzzySearchResults
      totalSearchTime == SumSearchTimeMs(fullText) + SumSearchTimeMs(fuzzy)
      totalSearchCount == Len(fullText) + Len(fuzzy)
  IN  IF searchMetrics.hasAverages
      THEN Quotient(searchMetrics.averageFullTextSearchTimeMs +
                    searchMetrics.averageFuzzySearchTimeMs, 2)
      ELSE IF totalSearchCount > 0 THEN Quotient(totalSearchTime, totalSearchCount)
      ELSE Quotient(0, 1)

HasChart(aggregations, chartName) ==
  \E i \in 1..Len(aggregations) : aggregations[i].key = chartName

ChartIndex(aggregations, chartName) ==
  CHOOSE i \in 1..Len(aggregations) : aggregations[i].key = chartName

HasPoint(dataPoints, value) == \E i \in 1..Len(dataPoints) : dataPoints[i].key = value

PointIndex(dataPoints, value) ==
  CHOOSE i \in 1..Len(dataPoints) : dataPoints[i].key = value

EmptyDataPoint(value) ==
  [variable |-> value, indexingTimeMs |-> <<>>, searchTimeMs |-> <<>>,
   updateTimeMs |-> <<>>, totalDurationMs |-> <<>>, timestamps |-> <<>>]

\* updateAggregation without its two has() tests: the dataset and the bucket
\* are set anew by every task
updateAggregationAlwaysCreates(aggregations, chartInfo, result) ==
  LET created ==
        [key |-> chartInfo.chartName,
         value |-> [chartName |-> chartInfo.chartName, variable |-> chartInfo.variable,
                    dataPoints |-> <<>>]]
      withChart ==
        IF HasChart(aggregations, chartInfo.chartName)
        THEN [aggregations EXCEPT ![ChartIndex(aggregations, chartInfo.chartName)] = created]
        ELSE Append(aggregations, created)
      c == ChartIndex(withChart, chartInfo.chartName)
      dataPoint == EmptyDataPoint(chartInfo.value)
      pushedTwo ==
        [dataPoint EXCEPT
           !.indexingTimeMs = Append(@, result.indexingMetrics.totalIndexingTimeMs),
           !.searchTimeMs = Append(@, calculateSearchAverage(result))]
      pushedAll ==
        [pushedTwo EXCEPT
           !.updateTimeMs = Append(@, result.updateMetrics.totalUpdateTimeMs),
           !.totalDurationMs = Append(@, result.totalTestDurationMs),
           !.timestamps = Append(@, result.timestamp)]
      store(point) ==
        [withChart EXCEPT ![c].value.dataPoints = <<[key |-> chartInfo.value, value |-> point]>>]
  IN  IF ~result.searchMetrics.present
      THEN [threw |-> TRUE, aggregations |-> store(dataPoint)]
      ELSE IF result.hasUpdateMetrics
      THEN [threw |-> FALSE, aggregations |-> store(pushedAll)]
      ELSE [threw |-> TRUE, aggregations |-> store(pushedTwo)]

\* updateAggregation; result.searchMetrics may be missing from the file, and
\* then calculateSearchAverage throws once the dataset and the data point
\* exist; result.updateMetrics may be missing, and then the push of the update
\* time throws after the first two pushes
updateAggregation(aggregations, chartInfo, result) ==
  LET withChart ==
        IF HasChart(aggregations, chartInfo.chartName) THEN aggregations
        ELSE Append(aggregations,
               [key |-> chartInfo.chartName,
                value |-> [chartName |-> chartInfo.chartName,
                           variable |-> chartInfo.variable, dataPoints |-> <<>>]])
      c == ChartIndex(withChart, chartInfo.chartName)
      points == withChart[c].value.dataPoints
      withPoint ==
        IF HasPoint(points, chartInfo.value) THEN points
        ELSE Append(points, [key |-> chartInfo.value, value |-> EmptyDataPoint(chartInfo.value)])
      d == PointIndex(withPoint, chartInfo.value)
      searchAverage == calculateSearchAverage(result)
      dataPoint == withPoint[d].value
      pushedTwo ==
        [dataPoint EXCEPT
           !.indexingTimeMs = Append(@, result.indexingMetrics.totalIndexingTimeMs),
           !.searchTimeMs = Append(@, searchAverage)]
      pushedAll ==
        [pushedTwo EXCEPT
           !.updateTimeMs = Append(@, result.updateMetrics.totalUpdateTimeMs),
           !.totalDurationMs = Append(@, result.totalTestDurationMs),
           !.timestamps = Append(@, result.timestamp)]
      store(point) ==
        [withChart EXCEPT ![c].value.dataPoints = [withPoint EXCEPT ![d].value = point]]
  IN  IF ~result.searchMetrics.present
      THEN [threw |-> TRUE, aggregations |-> store(dataPoint)]
      ELSE IF result.hasUpdateMetrics
      THEN [threw |-> FALSE, aggregations |-> store(pushedAll)]
      ELSE [threw |-> TRUE, aggregations |-> store(pushedTwo)]

----------------------------------------------------------------------------
(* visualization/chart-generator: calculateStats and the ChartData assembly  *)
(*                                                                         *)
(* A sample is the exact number num / den (Quotient).  A statistic that the *)
(* code rounds with toFixed(2) is the integer number of hundredths.         *)

RECURSIVE LCMOfDens(_)
LCMOfDens(values) ==
  IF values = <<>> THEN 1
  ELSE LET rest == LCMOfDens(Tail(values))
           den == Head(values).den
       IN  (rest * den) \div GCD(rest, den)

\* the samples as integers over the common denominator den
Scaled(values, den) == [i \in 1..Len(values) |-> values[i].num * (den \div values[i].den)]

RECURSIVE SumSeq(_)
SumSeq(xs) == IF xs = <<>> THEN 0 ELSE Head(xs) + SumSeq(Tail(xs))

RECURSIVE SumSquares(_)
SumSquares(xs) == IF xs = <<>> THEN 0 ELSE Head(xs) * Head(xs) + SumSquares(Tail(xs))

RECURSIVE InsertSorted(_, _)
InsertSorted(x, sorted) ==
  IF sorted = <<>> THEN <<x>>
  ELSE IF x <= Head(sorted) THEN <<x>> \o sorted
  ELSE <<Head(sorted)>> \o InsertSorted(x, Tail(sorted))

\* [...values].sort((a, b) => a - b)
RECURSIVE SortAscending(_)
SortAscending(xs) ==
  IF xs = <<>> THEN <<>> ELSE InsertSorted(Head(xs), SortAscending(Tail(xs)))

\* floor of the square root of n >= 0
RECURSIVE FloorSqrt(_)
FloorSqrt(n) ==
  IF n < 2 THEN n
  ELSE LET r == 2 * FloorSqrt(n \div 4)
       IN  IF (r + 1) * (r + 1) <= n THEN r + 1 ELSE r

\* parseFloat((num / den).toFixed(2)), in hundredths (num >= 0, den > 0)
ToFixed2(num, den) == (200 * num + den) \div (2 * den)

\* parseFloat(Math.sqrt(num / den).toFixed(2)), in hundredths
SqrtToFixed2(num, den) == (FloorSqrt((40000 * num) \div den) + 1) \div 2

ZeroStats ==
  [mean |-> 0, median |-> 0, min |-> Quotient(0, 1), max |-> Quotient(0, 1),
   std |-> 0, count |-> 0]

\* calculateStats with the sample standard deviation: the sum of the squares
\* over length - 1
calculateStatsSampleStd(values) ==
  IF Len(values) = 0 THEN ZeroStats
  ELSE LET den == LCMOfDens(values)
           scaled == Scaled(values, den)
           sorted == SortAscending(scaled)
           n == Len(values)
           sum == SumSeq(scaled)
           medianTwice ==
             IF n % 2 = 0 THEN sorted[n \div 2] + sorted[n \div 2 + 1]
             ELSE 2 * sorted[n \div 2 + 1]
       IN  [mean |-> ToFixed2(sum, n * den),
            median |-> ToFixed2(medianTwice, 2 * den),
            min |-> Quotient(sorted[1], den),
            max |-> Quotient(sorted[n], den),
            std |-> IF n = 1 THEN 0
                    ELSE SqrtToFixed2(n * SumSquares(scaled) - sum * sum,
                                      n * (n - 1) * den * den),
            count |-> n]

\* StreamProcessor.calculateStats
calculateStats(values) ==
  IF Len(values) = 0 THEN ZeroStats
  ELSE LET den == LCMOfDens(values)
           scaled == Scaled(values, den)
           sorted == SortAscending(scaled)
           n == Len(values)
           sum == SumSeq(scaled)
           medianTwice ==
             IF n % 2 = 0 THEN sorted[n \div 2] + sorted[n \div 2 + 1]
             ELSE 2 * sorted[n \div 2 + 1]
       IN  [mean |-> ToFixed2(sum, n * den),
            median |-> ToFixed2(medianTwice, 2 * den),
            min |-> Quotient(sorted[1], den),
            max |-> Quotient(sorted[n], den),
            std |-> SqrtToFixed2(n * SumSquares(scaled) - sum * sum, n * n * den * den),
            count |-> n]

\* a series of whole milliseconds as samples
WholeSamples(series) == [i \in 1..Len(series) |-> Quotient(series[i], 1)]

\* the dataPoints and rawDataPoints loadChartData builds from one aggregation
ChartDataOf(aggregation) ==
  LET points == aggregation.dataPoints
      dp(i) == points[i].value
  IN  [chartName |-> aggregation.chartName,
       variable |-> aggregation.variable,
       dataPoints |->
         [i \in 1..Len(points) |->
            [variable |-> dp(i).variable,
             stats |-> [indexing |-> calculateStats(WholeSamples(dp(i).indexingTimeMs)),
                        search |-> calculateStats(dp(i).searchTimeMs),
                        update |-> calculateStats(WholeSamples(dp(i).updateTimeMs)),
                        total |-> calculateStats(WholeSamples(dp(i).totalDurationMs))]]],
       rawDataPoints |->
         [i \in 1..Len(points) |->
            [variable |-> dp(i).variable,
             rawValues |-> [indexing |-> dp(i).indexingTimeMs,
                            search |-> dp(i).searchTimeMs,
                            update |-> dp(i).updateTimeMs,
                            total |-> dp(i).totalDurationMs]]]]

\* loadChartData: one ChartData per aggregation, in the order of the map
loadChartData(aggregations) ==
  [i \in 1..Len(aggregations) |-> ChartDataOf(aggregations[i].value)]

----------------------------------------------------------------------------
(* The result directory and the cache file *)

startsWith(str, prefix) ==
  Len(str) >= Len(prefix) /\ SubSeq(str, 1, Len(prefix)) = prefix

endsWith(str, suffix) ==
  Len(str) >= Len(suffix) /\ SubSeq(str, Len(str) - Len(suffix) + 1, Len(str)) = suffix

\* the files that may be in the result directory, in directory order
ResultPool ==
  <<"benchmark_1.json", "benchmark_2.json", "benchmark_3.json", "benchmark_4.json",
    "benchmark_5.json", "benchmark_6.json", "benchmark_7.json", "benchmark_8.json",
    "notes.json">>

ResultConfig(chartName, indexName, documentsPerBatch) ==
  [indexName |-> indexName, indexType |-> Str("standard"), chartName |-> chartName,
   numberOfBatches |-> Num(10), documentsPerBatch |-> Num(documentsPerBatch),
   updateConfig |-> [numberOfUpdateBatches |-> Num(5), documentsPerUpdateBatch |-> Num(50)]]

NoSearchMetrics ==
  [present |-> TRUE, hasAverages |-> FALSE, averageFullTextSearchTimeMs |-> 0, averageFuzzySearchTimeMs |-> 0,
   fullTextSearchResults |-> <<>>, fuzzySearchResults |-> <<>>]

\* a file that fs.readJson rejects
UnreadableFile ==
  [readable |-> FALSE, config |-> ResultConfig("", "", 0), timestamp |-> "",
   indexingMetrics |-> [totalIndexingTimeMs |-> 0], hasUpdateMetrics |-> FALSE,
   updateMetrics |-> [totalUpdateTimeMs |-> 0], searchMetrics |-> NoSearchMetrics,
   totalTestDurationMs |-> 0]

\* the BenchmarkResult each file of the pool holds
FileContent(file) ==
  CASE file = "benchmark_1.json" ->
         [readable |-> TRUE, timestamp |-> "2025-01-01T10:00:00.000Z",
          config |-> ResultConfig("Batch Size Scaling", "x-documentsPerBatch-100", 100),
          indexingMetrics |-> [totalIndexingTimeMs |-> 10], hasUpdateMetrics |-> TRUE,
          updateMetrics |-> [totalUpdateTimeMs |-> 4],
          searchMetrics |-> [NoSearchMetrics EXCEPT !.hasAverages = TRUE,
                               !.averageFullTextSearchTimeMs = 2,
                               !.averageFuzzySearchTimeMs = 4],
          totalTestDurationMs |-> 30]
    [] file = "benchmark_2.json" ->
         [readable |-> TRUE, timestamp |-> "2025-01-01T11:00:00.000Z",
          config |-> ResultConfig("Batch Size Scaling", "x-documentsPerBatch-20", 20),
          indexingMetrics |-> [totalIndexingTimeMs |-> 20], hasUpdateMetrics |-> TRUE,
          updateMetrics |-> [totalUpdateTimeMs |-> 8],
          searchMetrics |-> [NoSearchMetrics EXCEPT !.fullTextSearchResults = <<1, 2>>,
                               !.fuzzySearchResults = <<4>>],
          totalTestDurationMs |-> 50]
    \* the same chart and value as benchmark_1.json
    [] file = "benchmark_4.json" ->
         [readable |-> TRUE, timestamp |-> "2025-01-01T12:00:00.000Z",
          config |-> ResultConfig("Batch Size Scaling", "x-documentsPerBatch-100", 100),
          indexingMetrics |-> [totalIndexingTimeMs |-> 30], hasUpdateMetrics |-> TRUE,
          updateMetrics |-> [totalUpdateTimeMs |-> 6],
          searchMetrics |-> [NoSearchMetrics EXCEPT !.hasAverages = TRUE,
                               !.averageFullTextSearchTimeMs = 3,
                               !.averageFuzzySearchTimeMs = 6],
          totalTestDurationMs |-> 70]
    \* the same again, a JSON document without its updateMetrics section
    [] file = "benchmark_5.json" ->
         [readable |-> TRUE, timestamp |-> "2025-01-01T13:00:00.000Z",
          config |-> ResultConfig("Batch Size Scaling", "x-documentsPerBatch-100", 100),
          indexingMetrics |-> [totalIndexingTimeMs |-> 40], hasUpdateMetrics |-> FALSE,
          updateMetrics |-> [totalUpdateTimeMs |-> 0],
          searchMetrics |-> [NoSearchMetrics EXCEPT !.hasAverages = TRUE,
                               !.averageFullTextSearchTimeMs = 5,
                               !.averageFuzzySearchTimeMs = 7],
          totalTestDurationMs |-> 90]
    \* the same variable and value under another chart name
    [] file = "benchmark_6.json" ->
         [readable |-> TRUE, timestamp |-> "2025-01-01T14:00:00.000Z",
          config |-> ResultConfig("Indexing Baseline", "y-documentsPerBatch-100", 100),
          indexingMetrics |-> [totalIndexingTimeMs |-> 12], hasUpdateMetrics |-> TRUE,
          updateMetrics |-> [totalUpdateTimeMs |-> 5],
          searchMetrics |-> [NoSearchMetrics EXCEPT !.fullTextSearchResults = <<3>>,
                               !.fuzzySearchResults = <<5>>],
          totalTestDurationMs |-> 36]
    \* a chart of its own, a JSON document without its searchMetrics section
    [] file = "benchmark_7.json" ->
         [readable |-> TRUE, timestamp |-> "2025-01-01T15:00:00.000Z",
          config |-> ResultConfig("Search Baseline", "z-documentsPerBatch-100", 100),
          indexingMetrics |-> [totalIndexingTimeMs |-> 14], hasUpdateMetrics |-> TRUE,
          updateMetrics |-> [totalUpdateTimeMs |-> 7],
          searchMetrics |-> [NoSearchMetrics EXCEPT !.present = FALSE],
          totalTestDurationMs |-> 42]
    \* the chart name of benchmark_1.json, from a sweep of another variable
    [] file = "benchmark_8.json" ->
         [readable |-> TRUE, timestamp |-> "2025-01-01T16:00:00.000Z",
          config |-> ResultConfig("Batch Size Scaling", "x-numberOfBatches-10", 100),
          indexingMetrics |-> [totalIndexingTimeMs |-> 16], hasUpdateMetrics |-> TRUE,
          updateMetrics |-> [totalUpdateTimeMs |-> 9],
          searchMetrics |-> [NoSearchMetrics EXCEPT !.hasAverages = TRUE,
                               !.averageFullTextSearchTimeMs = 4,
                               !.averageFuzzySearchTimeMs = 8],
          totalTestDurationMs |-> 48]
    [] OTHER -> UnreadableFile

\* the cache file: absent, not JSON (garbage, or a write in progress), or JSON
\* with or without its metadata and aggregations sections
AbsentCache ==
  [state |-> "absent", hasMetadata |-> FALSE, resultsLastModified |-> 0,
   hasAggregations |-> FALSE, aggregations |-> <<>>]

InvalidCache == [AbsentCache EXCEPT !.state = "invalid"]

\* {"metadata": {"resultsLastModified": <time>}}
CacheWithoutAggregations(time) ==
  [AbsentCache EXCEPT !.state = "json", !.hasMetadata = TRUE, !.resultsLastModified = time]

\* {"aggregations": {}}
CacheWithoutMetadata == [AbsentCache EXCEPT !.state = "json", !.hasAggregations = TRUE]

\* getResultFiles: readdir, then the name filter
getResultFiles(files) ==
  LET IsResultFile(file) ==
        file \in files /\ endsWith(file, ".json") /\ startsWith(file, "benchmark_")
  IN  SelectSeq(ResultPool, IsResultFile)

\* isCacheValid: pathExists, readJson, stat and the comparison; every throw is false
isCacheValid(cache, mtime) ==
  /\ cache.state = "json"
  /\ cache.hasMetadata
  /\ cache.resultsLastModified >= mtime

\* the aggregations object saveToCache builds
RECURSIVE AggregationsForCache(_, _)
AggregationsForCache(aggregations, obj) ==
  IF aggregations = <<>> THEN obj
  ELSE LET aggregation == Head(aggregations).value
       IN  AggregationsForCache(Tail(aggregations),
             SetProperty(obj, Head(aggregations).key,
               [chartName |-> aggregation.chartName, variable |-> aggregation.variable,
                dataPoints |-> ObjectFromEntries(aggregation.dataPoints, <<>>)]))

\* the cacheData saveToCache writes, resultsStat.mtime being mtime
CacheData(aggregations, mtime) ==
  [state |-> "json", hasMetadata |-> TRUE, resultsLastModified |-> mtime,
   hasAggregations |-> TRUE, aggregations |-> AggregationsForCache(aggregations, <<>>)]

\* loadFromCache: throws when the file is not there, is not JSON or has no
\* aggregations object
loadFromCache(cache) ==
  LET loaded(i) ==
        [key |-> cache.aggregations[i].key,
         value |-> [chartName |-> cache.aggregations[i].value.chartName,
                    variable |-> cache.aggregations[i].value.variable,
                    dataPoints |-> MapFromObject(cache.aggregations[i].value.dataPoints)]]
  IN  [threw |-> cache.state # "json" \/ ~cache.hasAggregations,
       aggregations |-> [i \in 1..Len(cache.aggregations) |-> loaded(i)]]

\* processFile without its try and catch, the reduction starting over after a
\* read that failed
processFileAbortsOnFailure(aggregations, file) ==
  LET result == FileContent(file)
      chartInfo == extractChartInfo(result.config)
  IN  IF ~result.readable THEN <<>>
      ELSE IF ~chartInfo.found THEN aggregations
      ELSE updateAggregation(aggregations, chartInfo, result).aggregations

\* processFile once its read has completed with this result (or has failed):
\* try { extract, update } catch {}
processResult(aggregations, result) ==
  LET chartInfo == extractChartInfo(result.config)
  IN  IF ~result.readable \/ ~chartInfo.found THEN aggregations
      ELSE updateAggregation(aggregations, chartInfo, result).aggregations

\* processFile on a file of the result directory
processFile(aggregations, file) == processResult(aggregations, FileContent(file))

----------------------------------------------------------------------------
(* The aggregator as a state machine: loadChartData builds a StreamProcessor *)
(* and calls processAllResults; every await of the call is a step, and      *)
(* between two steps a benchmark run may add a result file and the cache    *)
(* file may be deleted.                                                     *)

\* constructor: the defaults of the options (maxParallel 0 stands for "not given")
StreamProcessorOptions(maxParallel, enableCache) ==
  [maxParallel |-> IF maxParallel = 0 THEN DefaultMaxParallel ELSE maxParallel,
   enableCache |-> enableCache]

NoCheck == [done |-> FALSE, cache |-> AbsentCache, mtime |-> 0, valid |-> FALSE]
NoSave ==
  [done |-> FALSE, pending |-> {}, reads |-> 0, mtime |-> 0, wrote |-> FALSE,
   written |-> AbsentCache]
NoReturn == [kind |-> "none", aggregations |-> <<>>]

\* loadChartData has called processAllResults and awaits it
RunningCall(mtime) ==
  [kind |-> "running", startMtime |-> mtime, endMtime |-> 0, chartData |-> <<>>,
   reads |-> 0, cacheChecked |-> "none"]

\* processAllResults has settled: loadChartData assembles the ChartData of the
\* map it resolved with, or rejects with it
ConcludeCall(history, kind, aggregations, mtime, reads, check) ==
  [history EXCEPT ![Len(history)] =
     [@ EXCEPT !.kind = kind, !.endMtime = mtime,
               !.chartData = loadChartData(aggregations), !.reads = Len(reads),
               !.cacheChecked = IF check.done THEN check.cache.state ELSE "none"]]

InitialDirectories ==
  { {}, {"benchmark_1.json"}, {"benchmark_1.json", "notes.json"},
    {"benchmark_1.json", "benchmark_2.json"},
    {"benchmark_1.json", "benchmark_2.json", "benchmark_3.json"} }

\* directories with two files of one chart and value, next to a file that
\* cannot be read, a file without updateMetrics, or a file of another chart,
\* and directories with a file that lacks a section, alone or not, or with
\* files of one chart name from sweeps of two variables
SharedBucketDirectories ==
  { {"benchmark_1.json", "benchmark_3.json", "benchmark_4.json"},
    {"benchmark_1.json", "benchmark_4.json", "benchmark_5.json"},
    {"benchmark_1.json", "benchmark_4.json", "benchmark_6.json"},
    {"benchmark_5.json"}, {"benchmark_7.json"}, {"benchmark_1.json", "benchmark_7.json"},
    {"benchmark_1.json", "benchmark_8.json"},
    {"benchmark_1.json", "benchmark_4.json", "benchmark_8.json"},
    {"benchmark_1.json", "benchmark_2.json", "benchmark_3.json", "benchmark_4.json",
     "benchmark_6.json", "notes.json"} }

InitialCaches ==
  { AbsentCache, InvalidCache, CacheWithoutMetadata,
    CacheWithoutAggregations(0), CacheWithoutAggregations(1) }

AggInit ==
  /\ GenIdle
  /\ CampaignIdle
  /\ StatsIdle
  /\ dFiles \in InitialDirectories
  /\ dMtime = 1
  /\ kCache \in InitialCaches
  /\ pPc = "new"
  /\ pOptions \in {StreamProcessorOptions(m, e) : m \in {0, 1, 2}, e \in BOOLEAN}
  /\ pAggregations = <<>>
  /\ pFiles = <<>>
  /\ pNext = 1
  /\ pPending = {}
  /\ pReads = <<>>
  /\ pCheck = NoCheck
  /\ pSave = NoSave
  /\ pReturn = NoReturn
  /\ pCalls = 0
  /\ pHistory = <<>>
  /\ pDone = <<>>

\* loadChartData: new StreamProcessor(options) and the call of processAllResults;
\* the history keeps the last two concluded calls and the running one
CallProcessAllResults ==
  /\ pPc \in {"new", "returned", "threw"}
  /\ pCalls < MaxCalls
  /\ pCalls' = pCalls + 1
  /\ pAggregations' = <<>>
  /\ pFiles' = <<>>
  /\ pNext' = 1
  /\ pPending' = {}
  /\ pReads' = <<>>
  /\ pCheck' = NoCheck
  /\ pSave' = NoSave
  /\ pReturn' = NoReturn
  /\ pPc' = IF pOptions.enableCache THEN "checking" ELSE "listing"
  /\ pHistory' = Append(IF Len(pHistory) < 2 THEN pHistory ELSE Tail(pHistory),
                        RunningCall(dMtime))
  /\ pDone' = <<>>
  /\ UNCHANGED <<dFiles, dMtime, kCache, pOptions, gvars, cvars, svars>>

\* await this.isCacheValid(resultsDir)
CheckCache ==
  /\ pPc = "checking"
  /\ pCheck' = [done |-> TRUE, cache |-> kCache, mtime |-> dMtime,
                valid |-> isCacheValid(kCache, dMtime)]
  /\ pPc' = IF isCacheValid(kCache, dMtime) THEN "loading" ELSE "listing"
  /\ UNCHANGED <<dFiles, dMtime, kCache, pOptions, pAggregations, pFiles, pNext,
                 pPending, pReads, pSave, pReturn, pCalls, pHistory, pDone,
                 gvars, cvars, svars>>

\* return await this.loadFromCache()
LoadFromCache ==
  /\ pPc = "loading"
  /\ LET loaded == loadFromCache(kCache)
     IN  IF loaded.threw
         THEN /\ pPc' = "threw"
              /\ pReturn' = [kind |-> "threw", aggregations |-> <<>>]
              /\ pHistory' = ConcludeCall(pHistory, "threw", <<>>, dMtime, pReads, pCheck)
         ELSE /\ pPc' = "returned"
              /\ pReturn' = [kind |-> "returned", aggregations |-> loaded.aggregations]
              /\ pHistory' = ConcludeCall(pHistory, "returned", loaded.aggregations,
                                          dMtime, pReads, pCheck)
  /\ UNCHANGED <<dFiles, dMtime, kCache, pOptions, pAggregations, pFiles, pNext,
                 pPending, pReads, pCheck, pSave, pCalls, pDone, gvars, cvars, svars>>

\* const files = await this.getResultFiles(resultsDir)
ListFiles ==
  /\ pPc = "listing"
  /\ pFiles' = getResultFiles(dFiles)
  /\ pNext' = 1
  /\ pPc' = "processing"
  /\ UNCHANGED <<dFiles, dMtime, kCache, pOptions, pAggregations, pPending, pReads,
                 pCheck, pSave, pReturn, pCalls, pHistory, pDone,
                 gvars, cvars, svars>>

\* processFilesInParallel without the await of Promise.all: the next chunk
\* starts while files of the chunk before it are in process
StartChunkNoAwait ==
  /\ pPc = "processing"
  /\ pNext <= Len(pFiles)
  /\ LET last == IF pNext + pOptions.maxParallel - 1 < Len(pFiles)
                 THEN pNext + pOptions.maxParallel - 1 ELSE Len(pFiles)
     IN  /\ pPending' = pPending \cup (pNext..last)
         /\ pReads' = pReads \o SubSeq(pFiles, pNext, last)
  /\ pNext' = pNext + pOptions.maxParallel
  /\ UNCHANGED <<dFiles, dMtime, kCache, pPc, pOptions, pAggregations, pFiles,
                 pCheck, pSave, pReturn, pCalls, pHistory, pDone, gvars, cvars, svars>>

\* processFilesInParallel: the next chunk; chunk.map starts every read of it
StartChunk ==
  /\ pPc = "processing"
  /\ pPending = {}
  /\ pNext <= Len(pFiles)
  /\ LET last == IF pNext + pOptions.maxParallel - 1 < Len(pFiles)
                 THEN pNext + pOptions.maxParallel - 1 ELSE Len(pFiles)
     IN  /\ pPending' = pNext..last
         /\ pReads' = pReads \o SubSeq(pFiles, pNext, last)
  /\ pNext' = pNext + pOptions.maxParallel
  /\ UNCHANGED <<dFiles, dMtime, kCache, pPc, pOptions, pAggregations, pFiles,
                 pCheck, pSave, pReturn, pCalls, pHistory, pDone,
                 gvars, cvars, svars>>

\* the read of one file of the chunk completes and processFile runs to its end
FinishFile ==
  /\ pPc = "processing"
  /\ \E i \in pPending :
       /\ pAggregations' = processFile(pAggregations, pFiles[i])
       /\ pPending' = pPending \ {i}
       /\ pDone' = Append(pDone, pFiles[i])
  /\ UNCHANGED <<dFiles, dMtime, kCache, pPc, pOptions, pFiles, pNext, pReads,
                 pCheck, pSave, pReturn, pCalls, pHistory, gvars, cvars, svars>>

\* the loop over the chunks is over
FinishProcessing ==
  /\ pPc = "processing"
  /\ pPending = {}
  /\ pNext > Len(pFiles)
  /\ pPc' = IF pOptions.enableCache THEN "saving" ELSE "returning"
  /\ UNCHANGED <<dFiles, dMtime, kCache, pOptions, pAggregations, pFiles, pNext,
                 pPending, pReads, pCheck, pSave, pReturn, pCalls, pHistory, pDone,
                 gvars, cvars, svars>>

\* saveToCache: const resultsStat = await fs.stat(resultsDir)
StatForSave ==
  /\ pPc = "saving"
  /\ pSave' = [done |-> TRUE, pending |-> pPending, reads |-> Len(pReads),
               mtime |-> dMtime, wrote |-> FALSE, written |-> AbsentCache]
  /\ pPc' = "writing"
  /\ UNCHANGED <<dFiles, dMtime, kCache, pOptions, pAggregations, pFiles, pNext,
                 pPending, pReads, pCheck, pReturn, pCalls, pHistory, pDone,
                 gvars, cvars, svars>>

\* fs.writeJson opens the cache file for writing: its content is gone
OpenCacheFile ==
  /\ pPc = "writing"
  /\ kCache' = InvalidCache
  /\ pPc' = "closing"
  /\ UNCHANGED <<dFiles, dMtime, pOptions, pAggregations, pFiles, pNext, pPending,
                 pReads, pCheck, pSave, pReturn, pCalls, pHistory, pDone,
                 gvars, cvars, svars>>

\* fs.writeJson has written the whole cacheData
WriteCacheFile ==
  /\ pPc = "closing"
  /\ kCache' = CacheData(pAggregations, pSave.mtime)
  /\ pSave' = [pSave EXCEPT !.wrote = TRUE,
                            !.written = CacheData(pAggregations, pSave.mtime)]
  /\ pPc' = "returning"
  /\ UNCHANGED <<dFiles, dMtime, pOptions, pAggregations, pFiles, pNext, pPending,
                 pReads, pCheck, pReturn, pCalls, pHistory, pDone,
                 gvars, cvars, svars>>

\* return this.aggregations
ReturnAggregations ==
  /\ pPc = "returning"
  /\ pReturn' = [kind |-> "returned", aggregations |-> pAggregations]
  /\ pPc' = "returned"
  /\ pHistory' = ConcludeCall(pHistory, "returned", pAggregations, dMtime, pReads, pCheck)
  /\ UNCHANGED <<dFiles, dMtime, kCache, pOptions, pAggregations, pFiles, pNext,
                 pPending, pReads, pCheck, pSave, pCalls, pDone, gvars, cvars, svars>>

\* a benchmark run saves its result: the next file of the pool appears in the
\* directory, whose modification time moves on
AddResultFile ==
  /\ pPc # "new"
  /\ dMtime <= MaxAdds
  /\ \E i \in 1..Len(ResultPool) :
       /\ ResultPool[i] \notin dFiles
       /\ \A j \in 1..(i - 1) : ResultPool[j] \in dFiles
       /\ dFiles' = dFiles \cup {ResultPool[i]}
  /\ dMtime' = dMtime + 1
  /\ UNCHANGED <<kCache, pPc, pOptions, pAggregations, pFiles, pNext, pPending,
                 pReads, pCheck, pSave, pReturn, pCalls, pHistory, pDone,
                 gvars, cvars, svars>>

\* somebody deletes the cache file (a deletion during the write leaves the
\* same file system as one just after it)
DeleteCache ==
  /\ pPc \notin {"new", "closing"}
  /\ kCache.state # "absent"
  /\ kCache' = AbsentCache
  /\ UNCHANGED <<dFiles, dMtime, pPc, pOptions, pAggregations, pFiles, pNext,
                 pPending, pReads, pCheck, pSave, pReturn, pCalls, pHistory, pDone,
                 gvars, cvars, svars>>

CacheNext ==
  \/ CallProcessAllResults \/ CheckCache \/ LoadFromCache \/ ListFiles
  \/ StartChunk \/ FinishFile \/ FinishProcessing \/ StatForSave
  \/ OpenCacheFile \/ WriteCacheFile \/ ReturnAggregations
  \/ AddResultFile \/ DeleteCache

SpecCache == AggInit /\ [][CacheNext]_vars

\* The reduction of the result files on its own: caching is disabled (the
\* --no-cache run), the cache file is never looked at and the directory holds
\* still, with files that share a bucket, cannot be read or lack a section.
ReduceInit ==
  /\ GenIdle
  /\ CampaignIdle
  /\ StatsIdle
  /\ dFiles \in InitialDirectories \cup SharedBucketDirectories
  /\ dMtime = 1
  /\ kCache = AbsentCache
  /\ pPc = "new"
  /\ pOptions \in {StreamProcessorOptions(m, FALSE) : m \in {0, 1, 2}}
  /\ pAggregations = <<>>
  /\ pFiles = <<>>
  /\ pNext = 1
  /\ pPending = {}
  /\ pReads = <<>>
  /\ pCheck = NoCheck
  /\ pSave = NoSave
  /\ pReturn = NoReturn
  /\ pCalls = 0
  /\ pHistory = <<>>
  /\ pDone = <<>>

ReduceNext ==
  \/ CallProcessAllResults \/ ListFiles \/ StartChunk \/ FinishFile
  \/ FinishProcessing \/ ReturnAggregations

SpecReduce == ReduceInit /\ [][ReduceNext]_vars

----------------------------------------------------------------------------
(* Properties of the cache *)

\* a call of processAllResults with caching enabled has concluded
CachedCallConcluded == pPc \in {"returned", "threw"} /\ pCalls > 0 /\ pOptions.enableCache

\* when the call checked, a cache existed whose stored directory timestamp
\* was >= the modification time of the result directory
StoredTimestampCurrent ==
  /\ pCheck.done
  /\ pCheck.cache.state = "json"
  /\ pCheck.cache.hasMetadata
  /\ pCheck.cache.resultsLastModified >= pCheck.mtime

\* the call returned the map of the cache, read no result file and did not
\* touch the cache file
ServedFromCache ==
  /\ pReturn.kind = "returned"
  /\ pReturn.aggregations = loadFromCache(pCheck.cache).aggregations
  /\ pReads = <<>>
  /\ ~pSave.done

\* the call read every matching result file and, after the last one was
\* processed, wrote the cache with the directory time and the map it returned
RebuiltAndSaved ==
  /\ pReturn.kind = "returned"
  /\ pReads = pFiles
  /\ \A file \in dFiles :
       (endsWith(file, ".json") /\ startsWith(file, "benchmark_") /\
        file \notin Range(pFiles)) => pCheck.mtime < dMtime
  /\ pSave.wrote
  /\ pSave.pending = {} /\ pSave.reads = Len(pFiles)
  /\ pSave.mtime >= pCheck.mtime
  /\ pSave.written = CacheData(pReturn.aggregations, pSave.mtime)

\* C10: a call of processAllResults with caching enabled returns the cached
\* map, reading no result file and leaving the cache file alone, exactly when
\* a cache exists whose stored directory timestamp is >= the modification
\* time of the result directory; in every other case it reads all matching
\* result files and overwrites the cache, with the new timestamp and map,
\* only after the last file has been processed
C10_CacheRule ==
  CachedCallConcluded =>
    IF StoredTimestampCurrent THEN ServedFromCache ELSE RebuiltAndSaved

\* the rule is followed by every call whose cache, found current, could also
\* be loaded: the call that departs from it is the one loadFromCache fails
CacheRuleWhenCacheLoads ==
  (CachedCallConcluded /\ pReturn.kind = "returned") =>
    IF StoredTimestampCurrent THEN ServedFromCache ELSE RebuiltAndSaved

\* a call served from a cache that an earlier call wrote
CacheHitReached ==
  CachedCallConcluded /\ StoredTimestampCurrent /\ ServedFromCache /\ pCalls = 2
    /\ pReturn.aggregations # <<>>

\* a call that found the cache of an earlier call out of date and rebuilt it
CacheRebuildReached ==
  CachedCallConcluded /\ pCheck.cache.hasAggregations /\ pCheck.cache.hasMetadata
    /\ ~StoredTimestampCurrent /\ RebuiltAndSaved /\ Len(pFiles) > 1

\* calls i and i + 1 of loadChartData both returned, and the result directory
\* did not change from the start of the first to the end of the second
ConsecutiveOnUnchangedDirectory(i) ==
  /\ i + 1 <= Len(pHistory)
  /\ pHistory[i].kind = "returned"
  /\ pHistory[i + 1].kind = "returned"
  /\ pHistory[i + 1].endMtime = pHistory[i].startMtime

\* C11: two consecutive calls of the aggregator on an unchanged result
\* directory return identical ChartData, whether the second is served from
\* the cache or rebuilds because the cache was deleted or is disabled; and the
\* second reads no result file when it finds the cache file
C11_CacheTransparent ==
  \A i \in 1..Len(pHistory) :
    ConsecutiveOnUnchangedDirectory(i) =>
      /\ pHistory[i + 1].chartData = pHistory[i].chartData
      /\ pHistory[i + 1].cacheChecked = "json" => pHistory[i + 1].reads = 0

\* the samples of a series without their order
BagOf(series) ==
  [v \in Range(series) |-> Cardinality({i \in 1..Len(series) : series[i] = v})]

\* the ChartData without the order of its charts, of their points and of the
\* samples of a series
Unordered(chartData) ==
  LET raw(point) ==
        [variable |-> point.variable,
         rawValues |-> [indexing |-> BagOf(point.rawValues.indexing),
                        search |-> BagOf(point.rawValues.search),
                        update |-> BagOf(point.rawValues.update),
                        total |-> BagOf(point.rawValues.total)]]
  IN  { [chartName |-> chartData[c].chartName, variable |-> chartData[c].variable,
         dataPoints |-> Range(chartData[c].dataPoints),
         rawDataPoints |-> {raw(point) : point \in Range(chartData[c].rawDataPoints)}]
        : c \in 1..Len(chartData) }

\* what the cache does preserve: the charts, their points, the statistics and
\* the samples of every point; only the order of the points, and of the samples
\* of a series between two rebuilds, may differ
CacheTransparentUpToOrder ==
  \A i \in 1..Len(pHistory) :
    ConsecutiveOnUnchangedDirectory(i) =>
      /\ Unordered(pHistory[i + 1].chartData) = Unordered(pHistory[i].chartData)
      /\ pHistory[i + 1].cacheChecked = "json" => pHistory[i + 1].reads = 0

\* a rebuild followed by a call served from the cache it wrote, with points
SecondCallServedFromCache ==
  /\ ConsecutiveOnUnchangedDirectory(1)
  /\ pHistory[1].reads > 1
  /\ pHistory[2].cacheChecked = "json" /\ pHistory[2].reads = 0
  /\ pHistory[2].chartData # <<>>

----------------------------------------------------------------------------
(* Replacement of the cache file *)

\* a cache file holding a whole cacheData document
CompleteCache(cache) == cache.state = "json" /\ cache.hasMetadata /\ cache.hasAggregations

\* C12: the cache file is replaced atomically: every step leaves it as it was,
\* absent, or holding the complete new cacheData, so that a crash at any
\* instant, or a reader at any instant, never finds a partly written file.
C12_AtomicReplacement ==
  [][\/ kCache' = kCache
     \/ kCache' = AbsentCache
     \/ CompleteCache(kCache') /\ kCache' = CacheData(pAggregations, pSave.mtime)]_vars

\* a complete previous cache has been opened for writing and the new content
\* is not written yet: the file a crash or a reader finds now
CacheTruncatedDuringWrite ==
  /\ pPc = "closing"
  /\ pCheck.done /\ CompleteCache(pCheck.cache)
  /\ kCache = InvalidCache

----------------------------------------------------------------------------
(* Files that cannot be read *)

\* fs.readJson resolves for this file
Readable(file) == FileContent(file).readable

\* the reduction of a list of files, one after the other, from a given map
RECURSIVE ReduceFiles(_, _)
ReduceFiles(aggregations, files) ==
  IF files = <<>> THEN aggregations
  ELSE ReduceFiles(processFile(aggregations, Head(files)), Tail(files))

\* processAllResults has rebuilt the aggregations from the result files
RebuildReturned == pPc = "returned" /\ ~pCheck.valid

\* C13: a result file that cannot be read or parsed is skipped and never
\* aborts the reduction: a rebuild never rejects, it takes every listed file
\* through processFile, and the map it returns is the one the readable files
\* alone give, taken in the order in which they finished.
C13_UnreadableSkipped ==
  /\ pPc = "threw" => pCheck.valid
  /\ RebuildReturned =>
       /\ Range(pDone) = Range(pFiles)
       /\ pReturn.aggregations = ReduceFiles(<<>>, SelectSeq(pDone, Readable))

\* a rebuild has returned the samples of two readable files after the read of
\* a third file, which finished between theirs, failed
UnreadableBetweenReadable ==
  /\ RebuildReturned
  /\ \E i, j, k \in 1..Len(pDone) :
       /\ i < j /\ j < k
       /\ Readable(pDone[i]) /\ ~Readable(pDone[j]) /\ Readable(pDone[k])
  /\ Len(pReturn.aggregations) > 0

----------------------------------------------------------------------------
(* A corrupted cache *)

CorruptCacheRebuilds ==
  (pCheck.done /\ (pCheck.cache.state = "invalid" \/ ~pCheck.cache.hasMetadata)) =>
    /\ ~pCheck.valid
    /\ pPc # "threw"
    /\ pPc = "returned" =>
         Range(pDone) = Range(pFiles) /\ pReturn.aggregations = ReduceFiles(<<>>, pDone)

\* processAllResults rejected: the cache passed the validity check and its
\* load failed
CacheLoadThrew == pPc = "threw" /\ pCheck.valid /\ pReturn.kind = "threw"

----------------------------------------------------------------------------
(* Bounded parallelism *)

NoDuplicates(seq) == \A i, j \in 1..Len(seq) : seq[i] = seq[j] => i = j

\* the positions of the chunk that begins at position first
ChunkFrom(first) ==
  {i \in 1..Len(pFiles) : first <= i /\ i < first + pOptions.maxParallel}

\* at most maxParallel files are in process, all of one chunk, and no file is
\* read or processed twice; once the loop over the chunks is over every listed
\* file has been processed exactly once
BoundedParallelism ==
  /\ pOptions.maxParallel >= 1
  /\ Cardinality(pPending) <= pOptions.maxParallel
  /\ \E first \in 1..(Len(pFiles) + 1) : pPending \subseteq ChunkFrom(first)
  /\ NoDuplicates(pReads) /\ NoDuplicates(pDone)
  /\ (pPc \in {"saving", "writing", "closing", "returning"} \/ RebuildReturned) =>
       /\ Len(pDone) = Len(pFiles)
       /\ Range(pDone) = Range(pFiles)

\* a step that puts files in process starts the next chunk of consecutive
\* files, and does so when no file of an earlier chunk is still in process
ChunksInSequence ==
  (pPending' \ pPending # {}) =>
    /\ pPending = {}
    /\ pPending' = ChunkFrom(Len(pDone) + 1)
    /\ pPending' = ChunkFrom(pNext)

\* C15: aggregation parallelism is bounded: the file list is cut into
\* consecutive chunks of at most maxParallel files (6 by default), never more
\* than maxParallel files are in process, a chunk starts only after every file
\* of the chunk before it has finished, and every file is processed exactly once.
C15_BoundedParallelism == [] BoundedParallelism /\ [][ChunksInSequence]_vars

\* three files with maxParallel 2: the two files of the first chunk have
\* finished and the third file, a chunk of its own, is in process
SecondChunkInProcess ==
  /\ pPc = "processing"
  /\ pOptions.maxParallel = 2
  /\ Len(pFiles) = 3
  /\ Len(pDone) = 2
  /\ pPending = {3}

----------------------------------------------------------------------------
(* Accumulation by the tasks of a chunk *)

\* the (dataset, value) buckets of a map
Buckets(aggregations) ==
  UNION { { <<aggregations[c].key, aggregations[c].value.dataPoints[d].key>> :
              d \in 1..Len(aggregations[c].value.dataPoints) } :
          c \in 1..Len(aggregations) }

\* the accumulator of a bucket; the empty one when the map has no such bucket
BucketOf(aggregations, bucket) ==
  IF bucket \in Buckets(aggregations)
  THEN LET points == aggregations[ChartIndex(aggregations, bucket[1])].value.dataPoints
       IN  points[PointIndex(points, bucket[2])].value
  ELSE EmptyDataPoint(bucket[2])

\* the bucket a result file belongs to
BucketOfFile(file) ==
  LET chartInfo == extractChartInfo(FileContent(file).config)
  IN  <<chartInfo.chartName, chartInfo.value>>

\* processFile runs to its end for this file without an exception
Extracted(file) ==
  /\ FileContent(file).readable
  /\ extractChartInfo(FileContent(file).config).found
  /\ FileContent(file).searchMetrics.present
  /\ FileContent(file).hasUpdateMetrics

\* the files extracted to a bucket so far
ExtractedTo(bucket) ==
  {i \in 1..Len(pDone) : Extracted(pDone[i]) /\ BucketOfFile(pDone[i]) = bucket}

\* every bucket holds one sample of each metric for each file extracted to it
\* (the indexing and search series may hold more: see C18)
SamplesPerExtractedFile ==
  /\ \A i \in 1..Len(pDone) :
       Extracted(pDone[i]) => BucketOfFile(pDone[i]) \in Buckets(pAggregations)
  /\ \A bucket \in Buckets(pAggregations) :
       LET dataPoint == BucketOf(pAggregations, bucket)
           files == Cardinality(ExtractedTo(bucket))
       IN  /\ Len(dataPoint.updateTimeMs) = files
           /\ Len(dataPoint.totalDurationMs) = files
           /\ Len(dataPoint.timestamps) = files
           /\ Len(dataPoint.indexingTimeMs) >= files
           /\ Len(dataPoint.searchTimeMs) >= files

\* the step in which a task finishes: the datasets and buckets there were stay
\* where they are, every other bucket keeps its samples, and the bucket of an
\* extracted file gets the file's sample at the end of each of its series
FinishFileKeepsSamples ==
  (Len(pDone') = Len(pDone) + 1) =>
    LET file == pDone'[Len(pDone')]
        result == FileContent(file)
        own == BucketOfFile(file)
        before == BucketOf(pAggregations, own)
    IN  /\ Len(pAggregations') >= Len(pAggregations)
        /\ \A c \in 1..Len(pAggregations) :
             /\ pAggregations'[c].key = pAggregations[c].key
             /\ pAggregations'[c].value.variable = pAggregations[c].value.variable
        /\ Buckets(pAggregations) \subseteq Buckets(pAggregations')
        /\ Buckets(pAggregations') \subseteq Buckets(pAggregations) \cup {own}
        /\ \A bucket \in Buckets(pAggregations) \ {own} :
             BucketOf(pAggregations', bucket) = BucketOf(pAggregations, bucket)
        /\ Extracted(file) =>
             BucketOf(pAggregations', own) =
               [before EXCEPT
                  !.indexingTimeMs = Append(@, result.indexingMetrics.totalIndexingTimeMs),
                  !.searchTimeMs = Append(@, calculateSearchAverage(result)),
                  !.updateTimeMs = Append(@, result.updateMetrics.totalUpdateTimeMs),
                  !.totalDurationMs = Append(@, result.totalTestDurationMs),
                  !.timestamps = Append(@, result.timestamp)]

\* C16: no update is lost during concurrent accumulation: in every
\* interleaving of the tasks of a chunk, each (dataset, value) bucket holds one
\* sample per metric for every file extracted to it, and a task never
\* overwrites the dataset or bucket another task has created.
C16_NoLostUpdates == [] SamplesPerExtractedFile /\ [][FinishFileKeepsSamples]_vars

\* two tasks of one chunk that found the same bucket have both finished, the
\* one started last first, and the bucket holds both samples
BothTasksOfBucketFinished ==
  /\ pPc = "processing"
  /\ Len(pFiles) >= 2 /\ pOptions.maxParallel >= Len(pFiles)
  /\ \E i, j \in 1..Len(pDone) :
       /\ i < j
       /\ pDone[i] = "benchmark_4.json" /\ pDone[j] = "benchmark_1.json"
  /\ Len(BucketOf(pAggregations, BucketOfFile("benchmark_1.json")).timestamps) = 2

----------------------------------------------------------------------------
(* Order of the points of a ChartData *)

\* the points with a numeric value are in ascending order of value
AscendingByValue(points) ==
  \A i, j \in 1..Len(points) :
    (i < j /\ points[i].variable.t = "num" /\ points[j].variable.t = "num") =>
      points[i].variable.n <= points[j].variable.n

\* C17: in every ChartData loadChartData returns the points are sorted
\* ascending by value (numerically, the values of the result files here being
\* numbers), whatever the order in which the files were listed or finished.
C17_PointsSorted ==
  \A i \in 1..Len(pHistory) :
    pHistory[i].kind = "returned" =>
      \A c \in 1..Len(pHistory[i].chartData) :
        /\ AscendingByValue(pHistory[i].chartData[c].dataPoints)
        /\ AscendingByValue(pHistory[i].chartData[c].rawDataPoints)

\* loadChartData has returned a chart whose points are 100, then 20
PointsReturnedUnsorted ==
  \E i \in 1..Len(pHistory) :
    /\ pHistory[i].kind = "returned"
    /\ \E c \in 1..Len(pHistory[i].chartData) :
         /\ Len(pHistory[i].chartData[c].dataPoints) = 2
         /\ pHistory[i].chartData[c].dataPoints[1].variable = Num(100)
         /\ pHistory[i].chartData[c].dataPoints[2].variable = Num(20)

----------------------------------------------------------------------------
(* Grouping of the result files *)

\* a result file the reduction assigns to a dataset and a value
Assigned(file) ==
  FileContent(file).readable /\ extractChartInfo(FileContent(file).config).found

\* the processed files of a (dataset, value) bucket
FilesOf(bucket) ==
  {i \in 1..Len(pDone) : Assigned(pDone[i]) /\ BucketOfFile(pDone[i]) = bucket}

\* the ChartData of a rebuild has one dataset per chartName, one point per
\* value, and each statistic of a point counts the files of its bucket
Grouped(chartData) ==
  /\ \A c, e \in 1..Len(chartData) :
       chartData[c].chartName = chartData[e].chartName => c = e
  /\ \A i \in 1..Len(pDone) :
       Assigned(pDone[i]) =>
         \E c \in 1..Len(chartData) :
           /\ chartData[c].chartName = BucketOfFile(pDone[i])[1]
           /\ \E d \in 1..Len(chartData[c].dataPoints) :
                chartData[c].dataPoints[d].variable = BucketOfFile(pDone[i])[2]
  /\ \A c \in 1..Len(chartData) :
       LET points == chartData[c].dataPoints
       IN  /\ \A d, e \in 1..Len(points) :
                points[d].variable = points[e].variable => d = e
           /\ \A d \in 1..Len(points) :
                LET files == Cardinality(FilesOf(<<chartData[c].chartName, points[d].variable>>))
                IN  /\ files > 0
                    /\ points[d].stats.indexing.count = files
                    /\ points[d].stats.search.count = files
                    /\ points[d].stats.update.count = files
                    /\ points[d].stats.total.count = files

\* C18: grouping: the result files that share a chartName and a swept value
\* make one dataset with exactly one point for that value, whose statistics
\* (indexing, search, update, total) each count the number of these files;
\* files of different chartName never share a dataset.
C18_Grouping == RebuildReturned => Grouped(loadChartData(pReturn.aggregations))

\* the same when every assigned file carries all its metrics
GroupingOfCompleteFiles ==
  (RebuildReturned /\ \A i \in 1..Len(pDone) : Assigned(pDone[i]) => Extracted(pDone[i])) =>
    Grouped(loadChartData(pReturn.aggregations))

\* two complete files of one chart and value and a file of another chart with
\* the same value have been reduced to two datasets
TwoFilesOnePoint ==
  /\ RebuildReturned
  /\ Range(pDone) = {"benchmark_1.json", "benchmark_4.json", "benchmark_6.json"}
  /\ Len(pReturn.aggregations) = 2
  /\ \E c \in 1..2 :
       LET chart == loadChartData(pReturn.aggregations)[c]
       IN  /\ chart.chartName = "Batch Size Scaling"
           /\ Len(chart.dataPoints) = 1
           /\ chart.dataPoints[1].stats.indexing.count = 2

\* a point whose statistics count different numbers of files
UnequalCounts ==
  /\ RebuildReturned
  /\ \E c \in 1..Len(pReturn.aggregations) :
       \E point \in Range(loadChartData(pReturn.aggregations)[c].dataPoints) :
         point.stats.indexing.count # point.stats.update.count

----------------------------------------------------------------------------
(* calculateStats on its own: a series is collected sample by sample, as    *)
(* updateAggregation pushes them, and calculateStats is applied to it       *)

\* the samples a series is made of: whole milliseconds and a search average
Samples == {Quotient(0, 1), Quotient(10, 1), Quotient(20, 1), Quotient(30, 1), Quotient(5, 2)}

StatsInit ==
  /\ GenIdle
  /\ CampaignIdle
  /\ AggIdle
  /\ sPc = "collecting"
  /\ sValues = <<>>
  /\ sStats = ZeroStats

\* dataPoint.<series>.push(sample)
PushSample ==
  /\ Len(sValues) < MaxSeries
  /\ \E sample \in Samples : sValues' = Append(sValues, sample)
  /\ sPc' = "collecting"
  /\ UNCHANGED <<sStats, gvars, cvars, avars>>

\* StreamProcessor.calculateStats(series)
CallCalculateStats ==
  /\ sPc = "collecting"
  /\ sStats' = calculateStats(sValues)
  /\ sPc' = "computed"
  /\ UNCHANGED <<sValues, gvars, cvars, avars>>

StatsNext == PushSample \/ CallCalculateStats

SpecStats == StatsInit /\ [][StatsNext]_vars

----------------------------------------------------------------------------
(* The reference definition of the statistics *)

\* a / b <= c / d for denominators above 0
NotAbove(a, b, c, d) == a * d <= c * b

\* the hundredth nearest to num / den, the upper one of two equally near
NearestHundredth(num, den) ==
  LET below == (100 * num) \div den
  IN  IF 2 * (100 * num - below * den) >= den THEN below + 1 ELSE below

\* the hundredth nearest to the square root of num / den
NearestHundredthOfRoot(num, den) ==
  CHOOSE k \in 0..(100 * (num \div den + 1)) :
    /\ k > 0 => (2 * k - 1) * (2 * k - 1) * den <= 40000 * num
    /\ 40000 * num < (2 * k + 1) * (2 * k + 1) * den

\* the series in ascending order: a permutation of it that never descends
SortedSeries(values) ==
  CHOOSE sorted \in [1..Len(values) -> Range(values)] :
    /\ \A v \in Range(values) : BagOf(sorted)[v] = BagOf(values)[v]
    /\ \A i \in 1..(Len(values) - 1) :
         NotAbove(sorted[i].num, sorted[i].den, sorted[i + 1].num, sorted[i + 1].den)

RECURSIVE SumOfSquaredDeviations(_, _, _, _)
\* the sum of (n * x - sum)^2 over the samples x, as a count of 1 / den^2
SumOfSquaredDeviations(values, n, sum, den) ==
  IF values = <<>> THEN 0
  ELSE LET deviation == n * (Head(values).num * (den \div Head(values).den)) - sum
       IN  deviation * deviation + SumOfSquaredDeviations(Tail(values), n, sum, den)

ReferenceStats(values) ==
  IF values = <<>>
  THEN [mean |-> 0, median |-> 0, min |-> Quotient(0, 1), max |-> Quotient(0, 1),
        std |-> 0, count |-> 0]
  ELSE LET n == Len(values)
           den == LCMOfDens(values)
           sum == SumSeq(Scaled(values, den))
           sorted == SortedSeries(values)
           least == CHOOSE v \in Range(values) :
                      \A w \in Range(values) : NotAbove(v.num, v.den, w.num, w.den)
           greatest == CHOOSE v \in Range(values) :
                         \A w \in Range(values) : NotAbove(w.num, w.den, v.num, v.den)
           middle == sorted[(n + 1) \div 2]
           nextToMiddle == sorted[n \div 2 + 1]
           \* the variance is sum of (x - mean)^2 over n: in units of 1 / (n^3 den^2)
           variance == Quotient(SumOfSquaredDeviations(values, n, sum, den), n * n * n * den * den)
       IN  [mean |-> NearestHundredth(sum, n * den),
            median |-> NearestHundredth(middle.num * nextToMiddle.den + nextToMiddle.num * middle.den,
                                        2 * middle.den * nextToMiddle.den),
            min |-> least,
            max |-> greatest,
            std |-> NearestHundredthOfRoot(variance.num, variance.den),
            count |-> n]

\* C19: calculateStats matches the reference definition for every series:
\* count is the length, min and max the least and greatest sample, median the
\* middle of the sorted series (the mean of the two middle samples for an even
\* length), mean the arithmetic mean, std the population standard deviation,
\* the last three to two decimals; the empty series gives zeros with count 0,
\* and [10, 20, 30] gives mean 20, median 20, min 10, max 30, std 8.16, count 3.
C19_StatsMatchReference ==
  sPc = "computed" =>
    /\ sStats = ReferenceStats(sValues)
    /\ sValues = <<>> => sStats = ZeroStats
    /\ sValues = WholeSamples(<<10, 20, 30>>) =>
         sStats = [mean |-> 2000, median |-> 2000, min |-> Quotient(10, 1),
                   max |-> Quotient(30, 1), std |-> 816, count |-> 3]

\* calculateStats has been applied to [10, 20, 30]
StatsOfTenTwentyThirty ==
  /\ sPc = "computed"
  /\ sValues = WholeSamples(<<10, 20, 30>>)
  /\ sStats.std = 816 /\ sStats.count = 3

\* calculateStats has been applied to the empty series
StatsOfEmptySeries == sPc = "computed" /\ sValues = <<>> /\ sStats.count = 0

----------------------------------------------------------------------------
(* Sweeps that recompute the product structure *)

CompositeVariables == {"additionalFields", "totalWords", "descriptionWordLength"}

\* the structure parameters applyVariationToConfig derives for a swept value
\* from the base configuration
StructureConfigOf(base, variable, value) ==
  CASE variable = "additionalFields" ->
         [additionalFields |-> value,
          totalWords |-> IF base.productStructure.present
                         THEN SumWordCount(base.productStructure.fields) ELSE 10]
    [] variable = "totalWords" ->
         [additionalFields |->
            IF base.productStructure.present
            THEN Len(SelectSeq(base.productStructure.fields, IsAdditionalField)) ELSE 1,
          totalWords |-> value]
    [] OTHER -> [additionalFields |-> 1, totalWords |-> value]

\* the numeric sweep ends and one of its values asks for more additional
\* fields than there are words
SweepExceedsWords ==
  /\ ~gVariations.hasValues
  /\ NumericLoopEnds(gVariations.min, gVariations.max, gVariations.increment)
  /\ \E value \in Range(generateNumericValues(gVariations.min, gVariations.max,
                                              gVariations.increment)) :
       LET structureConfig == StructureConfigOf(gBaseBefore, gVariations.variable, value.n)
       IN  structureConfig.additionalFields > structureConfig.totalWords

\* a product structure with more additional fields than words
FieldsExceedWords(productStructure) ==
  /\ productStructure.present
  /\ Len(SelectSeq(productStructure.fields, IsAdditionalField)) >
       SumWordCount(productStructure.fields)

\* the sweep of one of these variables is rejected with an error when a value
\* exceeds the words, and no returned configuration has such a structure
RejectsInvalidStructure(variables) ==
  (GenCalled /\ gVariations.variable \in variables) =>
    /\ SweepExceedsWords => (gOut.kind = "threw" /\ gOut.configs = <<>>)
    /\ \A k \in 1..Len(gOut.configs) :
         ~FieldsExceedWords(gOut.configs[k].productStructure)

\* C20: every sweep that recomputes the product structure (additionalFields,
\* totalWords, descriptionWordLength) rejects a value that makes the field
\* count exceed the total word count: the call raises a validation error and
\* returns no configuration with that structure.
C20_InvalidStructureRejected == RejectsInvalidStructure(CompositeVariables)

\* the same for the two sweeps that call validateProductStructureConfig
ValidatedSweepsRejectInvalid == RejectsInvalidStructure({"additionalFields", "totalWords"})

\* an additionalFields or totalWords sweep has been rejected for such a value
InvalidStructureSweepThrew ==
  /\ gVariations.variable \in {"additionalFields", "totalWords"}
  /\ SweepExceedsWords
  /\ gOut.kind = "threw"

\* a descriptionWordLength sweep has returned a configuration whose one
\* additional field has no word
DescriptionSweepReturnedNoWords ==
  /\ gVariations.variable = "descriptionWordLength"
  /\ gOut.kind = "returned"
  /\ \E k \in 1..Len(gOut.configs) : FieldsExceedWords(gOut.configs[k].productStructure)

----------------------------------------------------------------------------
(* The references of a campaign *)

\* the references of the invocations that resolved with a reference, in the
\* order in which they concluded
RECURSIVE ReferencesOf(_)
ReferencesOf(log) ==
  IF log = <<>> THEN <<>>
  ELSE LET entry == log[Len(log)]
           before == ReferencesOf(SubSeq(log, 1, Len(log) - 1))
       IN  IF entry.event = "end" /\ entry.outcome = "string"
           THEN Append(before, ResultRef(entry.config, entry.repetition))
           ELSE before

\* C21: results holds only references returned by successful runs, in the
\* order in which those runs completed, and a failed run never adds an entry:
\* at every moment results is the list of the references of the concluded
\* successful invocations in conclusion order, and the CampaignResult carries
\* that list.
C21_ResultRefs ==
  /\ cResults = ReferencesOf(cLog)
  /\ cPc = "returned" => cResult.results = ReferencesOf(cLog)

\* a campaign has returned after a failed run between two successful ones and
\* a failure that ended a configuration: two references, of different
\* configurations, neither being that of a failed run
FailuresBetweenReferences ==
  /\ cPc = "returned"
  /\ cCampaign.repetitions = 2
  /\ cResult.failedRuns = 2
  /\ cResult.results = <<ResultRef(0, 1), ResultRef(1, 2)>>

----------------------------------------------------------------------------
(* Termination of a campaign *)

\* runCampaign and executeConfiguration run on as long as they can, and every
\* invocation of the runner concludes
CampaignFairness ==
  /\ WF_vars(StartCampaign \/ EnterConfiguration \/ StartRun \/ LeaveConfiguration
             \/ ReturnCampaign)
  /\ WF_vars(RunSucceeds \/ RunFails)

SpecCampaignLive == CampaignInit /\ [][CampaignNext]_vars /\ CampaignFairness

\* every invocation of the campaign has started and concluded
AllInvocationsConcluded ==
  /\ cInFlight = 0
  /\ Cardinality(LogEntries("end")) = Len(cConfigs) * cCampaign.repetitions
  /\ \A p \in CampaignPairs :
       \E i \in LogEntries("end") : cLog[i].config = p[1] /\ cLog[i].repetition = p[2]

\* C22: provided every invocation of the run function concludes, runCampaign
\* eventually returns a CampaignResult, and it returns only after all
\* len(configurations) * repetitions invocations have concluded (no early
\* exit).
C22_CampaignTerminates ==
  /\ <>(cPc = "returned")
  /\ [](cPc = "returned" => AllInvocationsConcluded)

\* once the configurations are generated the campaign returns, and it never
\* returns before all its invocations have concluded
CampaignLoopTerminates ==
  /\ (cPc = "configLoop") ~> (cPc = "returned")
  /\ [](cPc = "returned" => AllInvocationsConcluded)

\* runCampaign is inside generateConfigurations for ever, no invocation of
\* the runner having started
CampaignHungBeforeFirstRun == cPc = "hung" /\ cLog = <<>>

\* runCampaign has thrown the generator's error, no invocation of the runner
\* having started
CampaignThrewBeforeFirstRun == cPc = "threw" /\ cLog = <<>>

----------------------------------------------------------------------------
(* A StreamProcessor that is used for more than one pass *)

\* processAllResults is called again on the StreamProcessor of the previous
\* call: the fields of the instance, this.aggregations among them, are what
\* the previous call left (this.aggregations is assigned once, by the field
\* initialiser)
CallProcessAllResultsAgain ==
  /\ pPc = "returned"
  /\ pCalls < MaxCalls
  /\ pCalls' = pCalls + 1
  /\ pFiles' = <<>>
  /\ pNext' = 1
  /\ pPending' = {}
  /\ pReads' = <<>>
  /\ pCheck' = NoCheck
  /\ pSave' = NoSave
  /\ pReturn' = NoReturn
  /\ pPc' = IF pOptions.enableCache THEN "checking" ELSE "listing"
  /\ pHistory' = Append(IF Len(pHistory) < 2 THEN pHistory ELSE Tail(pHistory),
                        RunningCall(dMtime))
  /\ pDone' = <<>>
  /\ UNCHANGED <<dFiles, dMtime, kCache, pOptions, pAggregations, gvars, cvars, svars>>

InstanceNext == ReduceNext \/ CallProcessAllResultsAgain

\* full passes over a directory that holds still, by new StreamProcessors and
\* by the StreamProcessor of the previous pass
SpecInstance == ReduceInit /\ [][InstanceNext]_vars

\* the samples a map holds for a bucket
SampleCounts(aggregations) ==
  [bucket \in Buckets(aggregations) |->
     LET dataPoint == BucketOf(aggregations, bucket)
     IN  <<Len(dataPoint.indexingTimeMs), Len(dataPoint.searchTimeMs),
           Len(dataPoint.updateTimeMs), Len(dataPoint.totalDurationMs)>>]

\* C23: a rebuild builds the whole dataset map from the files alone: after a
\* full pass of processAllResults the returned map is the one the files of the
\* directory give, with nothing carried over from an earlier pass of the same
\* StreamProcessor (sample counts are not doubled by a second rebuild).
C23_RebuiltFromFilesAlone ==
  RebuildReturned =>
    /\ pReturn.aggregations = ReduceFiles(<<>>, SelectSeq(pDone, Readable))
    /\ SampleCounts(pReturn.aggregations) =
         SampleCounts(ReduceFiles(<<>>, SelectSeq(pDone, Readable)))

\* the first pass of a StreamProcessor returns what the files alone give
FirstPassFromFilesAlone ==
  (RebuildReturned /\ pCalls = 1) =>
    pReturn.aggregations = ReduceFiles(<<>>, SelectSeq(pDone, Readable))

\* the second pass of one StreamProcessor over a directory of one file has
\* returned two samples in each series of that file's bucket
SecondPassDoubled ==
  /\ RebuildReturned
  /\ pCalls = 2
  /\ dFiles = {"benchmark_1.json"}
  /\ \E bucket \in Buckets(pReturn.aggregations) :
       SampleCounts(pReturn.aggregations)[bucket] = <<2, 2, 2, 2>>

----------------------------------------------------------------------------
(* Extraction of the swept value of every supported variable *)

\* extractChartInfo has been applied to the result of a generated
\* configuration of a sweep of one of these variables, the configuration
\* carrying a chartName
ExtractedSweepOf(variables) ==
  /\ gExtract.k # 0
  /\ gVariations.variable \in variables
  /\ gOut.configs[gExtract.k].chartName # ""

\* the extraction gives the swept variable and the typed value the
\* configuration holds for it
RecoversSweptValue(variables) ==
  ExtractedSweepOf(variables) =>
    /\ gExtract.info.found
    /\ gExtract.info.variable = gVariations.variable
    /\ gExtract.info.value =
         SweptValue(gHeap, gOut.configs[gExtract.k], gVariations.variable)

\* C24: for each of the nine variables the generator supports and for every
\* base label, extractChartInfo applied to a result carrying a generated
\* configuration (with a chartName) returns that variable and the
\* configuration's own typed swept value.
C24_ExtractionRecoversValue == RecoversSweptValue(SupportedVariables)

\* the variables whose "-variable-" pattern extractChartInfo tests for and
\* whose value it finds in the configuration
RecognisedVariables ==
  { "indexType", "documentsPerBatch", "numberOfBatches", "numberOfUpdateBatches",
    "documentsPerUpdateBatch" }

RecognisedVariablesRecovered == RecoversSweptValue(RecognisedVariables)

\* the configurations of an additionalFields sweep started from the command
\* line are all given the value "additionalFields"
PositionalValueIsVariableName ==
  /\ ExtractedSweepOf({"additionalFields", "totalWords", "fuzziness"})
  /\ gArgs.entry = "cli"
  /\ gExtract.info.found
  /\ gExtract.info.value = Str(gVariations.variable)

\* a configuration of such a sweep from a one-segment base label is skipped
UnrecognisedSweepSkipped ==
  /\ ExtractedSweepOf({"additionalFields", "totalWords", "fuzziness"})
  /\ ~gExtract.info.found

\* a configuration of a descriptionWordLength sweep is given no value
DescriptionSweepValueUndefined ==
  /\ ExtractedSweepOf({"descriptionWordLength"})
  /\ gExtract.info.found
  /\ gExtract.info.value = Undefined

----------------------------------------------------------------------------
(* The search sample of a result file *)

\* the mean of a mode's samples, 0 for a mode without a sample
\* (as calculateSearchMetrics takes it, before rounding)
ModeMean(results) ==
  IF results = <<>> THEN Quotient(0, 1)
  ELSE Quotient(SumSearchTimeMs(results), Len(results))

\* the arithmetic mean of the two modes' means: the pre-aggregated means when
\* the file has them, the means of the raw samples otherwise
MeanOfModeMeans(searchMetrics) ==
  IF searchMetrics.hasAverages
  THEN Quotient(searchMetrics.averageFullTextSearchTimeMs +
                searchMetrics.averageFuzzySearchTimeMs, 2)
  ELSE LET fullText == ModeMean(searchMetrics.fullTextSearchResults)
           fuzzy == ModeMean(searchMetrics.fuzzySearchResults)
       IN  Quotient(fullText.num * fuzzy.den + fuzzy.num * fullText.den,
                    2 * fullText.den * fuzzy.den)

\* the files whose search sample was appended to a bucket, in the order in
\* which they finished
SearchSampledTo(bucket) ==
  SelectSeq(pDone, LAMBDA file :
    /\ Readable(file)
    /\ extractChartInfo(FileContent(file).config).found
    /\ FileContent(file).searchMetrics.present
    /\ BucketOfFile(file) = bucket)

\* the search series of every bucket of a rebuild holds, for each of these
\* files of the bucket, the mean of its two modes' means and nothing else
SearchSamplesAreMeansOfMeans(files) ==
  RebuildReturned =>
    \A bucket \in Buckets(pReturn.aggregations) :
      LET sampled == SearchSampledTo(bucket)
      IN  Range(sampled) \subseteq files =>
            BucketOf(pReturn.aggregations, bucket).searchTimeMs =
              [i \in 1..Len(sampled) |->
                 MeanOfModeMeans(FileContent(sampled[i]).searchMetrics)]

\* C25: the search sample appended for a result file is the arithmetic mean
\* of the two search modes' pre-aggregated means; it is recomputed from the
\* raw per-term samples only when the pre-aggregated means are absent, and
\* the recomputed figure is again the mean of the two modes' means.
C25_SearchSample == SearchSamplesAreMeansOfMeans(Range(ResultPool))

\* the same for the files that carry their pre-aggregated means
PreAggregatedMeansAveraged ==
  SearchSamplesAreMeansOfMeans(
    {file \in Range(ResultPool) : FileContent(file).searchMetrics.hasAverages})

\* a file with raw samples 1 and 2 (full text) and 4 (fuzzy) and no
\* pre-aggregated mean has been given the pooled mean 7/3, the mean of the two
\* modes' means being 11/4
RecomputedFromPooledSamples ==
  /\ RebuildReturned
  /\ "benchmark_2.json" \in Range(pDone)
  /\ BucketOf(pReturn.aggregations, BucketOfFile("benchmark_2.json")).searchTimeMs =
       <<Quotient(7, 3)>>
  /\ MeanOfModeMeans(FileContent("benchmark_2.json").searchMetrics) = Quotient(11, 4)

----------------------------------------------------------------------------
(* The positional fallback of the extraction *)

\* the variables extractChartInfo has a "-variable-" pattern for
PatternVariables == RecognisedVariables \cup {"descriptionWordLength"}

RECURSIVE JoinWithDash(_)
JoinWithDash(parts) ==
  IF Len(parts) = 1 THEN parts[1]
  ELSE parts[1] \o "-" \o JoinWithDash(Tail(parts))

\* parts are the segments of the label: they hold no "-" and, joined with
\* "-", give the label back
IsSegmentation(parts, label) ==
  /\ Len(parts) >= 1
  /\ \A p \in 1..Len(parts) : \A i \in 1..Len(parts[p]) : SubSeq(parts[p], i, i) # "-"
  /\ JoinWithDash(parts) = label

\* the greatest number a label of the model holds
MaxLabelNumber == 1100

\* a segment as a value: the number it is the decimal writing of, 0 for the
\* empty segment (as Number("") is 0), the segment itself otherwise
SegmentValue(segment) ==
  IF segment = "" THEN Num(0)
  ELSE IF \E n \in 0..MaxLabelNumber : ToString(n) = segment
  THEN Num(CHOOSE n \in 0..MaxLabelNumber : ToString(n) = segment)
  ELSE Str(segment)

\* a BenchmarkResult that carries this configuration
ResultOf(config) ==
  [FileContent("benchmark_1.json") EXCEPT !.config = config]

\* extractChartInfo has been applied to a result whose label matches none of
\* the patterns
FallbackTaken ==
  /\ gExtract.k # 0
  /\ \A v \in PatternVariables :
       ~includes(gOut.configs[gExtract.k].indexName, "-" \o v \o "-")

FallbackGaveString ==
  /\ FallbackTaken
  /\ gExtract.info.found
  /\ gExtract.info.value.t = "str"

\* a label of three segments with a chartName has been skipped
FallbackSkippedShortLabel ==
  /\ FallbackTaken
  /\ gOut.configs[gExtract.k].chartName # ""
  /\ Len(split(gOut.configs[gExtract.k].indexName)) = 3
  /\ ~gExtract.info.found

\* a label of four segments without a chartName has been skipped
FallbackSkippedWithoutChartName ==
  /\ FallbackTaken
  /\ gOut.configs[gExtract.k].chartName = ""
  /\ Len(split(gOut.configs[gExtract.k].indexName)) >= 4
  /\ ~gExtract.info.found

\* the fourth segment was empty and the value is 0
FallbackGaveZeroForEmptySegment ==
  /\ FallbackTaken
  /\ gExtract.info.found
  /\ split(gOut.configs[gExtract.k].indexName)[4] = ""
  /\ gExtract.info.value = Num(0)

----------------------------------------------------------------------------
(* All or nothing of a result file *)

\* every data point of the map holds, in each of its four series, one sample
\* for each complete file of its bucket and nothing else, there is at least
\* one such file, and no dataset is without a data point
AllOrNothing(aggregations) ==
  /\ \A c \in 1..Len(aggregations) : Len(aggregations[c].value.dataPoints) > 0
  /\ \A bucket \in Buckets(aggregations) :
       LET files == Cardinality(ExtractedTo(bucket))
       IN  /\ files > 0
           /\ SampleCounts(aggregations)[bucket] = <<files, files, files, files>>

\* C27: each result file contributes all or nothing: after a reduction the
\* four series of every data point have the same non-zero length, the number
\* of files attributed to the point, and a file whose processing throws
\* part-way (no updateMetrics, no searchMetrics) leaves no partial sample and
\* no empty dataset or data point.
C27_AllOrNothing == RebuildReturned => AllOrNothing(pReturn.aggregations)

\* the same when every file given to updateAggregation is complete
CompleteFilesAllOrNothing ==
  (RebuildReturned /\ \A i \in 1..Len(pDone) : Assigned(pDone[i]) => Extracted(pDone[i])) =>
    AllOrNothing(pReturn.aggregations)

\* a file without updateMetrics, alone in the directory, has left a data point
\* with one indexing and one search sample and no update and total sample
PartialSampleLeft ==
  /\ RebuildReturned
  /\ pDone = <<"benchmark_5.json">>
  /\ SampleCounts(pReturn.aggregations)[BucketOfFile("benchmark_5.json")] = <<1, 1, 0, 0>>

\* a file without searchMetrics, alone in the directory, has left a dataset
\* with one data point and no sample
EmptyDataPointLeft ==
  /\ RebuildReturned
  /\ pDone = <<"benchmark_7.json">>
  /\ Len(pReturn.aggregations) = 1
  /\ SampleCounts(pReturn.aggregations)[BucketOfFile("benchmark_7.json")] = <<0, 0, 0, 0>>

----------------------------------------------------------------------------
(* The search fields of the generated configurations *)

\* a sweep that recomputes the search fields has returned its list
StructureSweepReturned ==
  /\ gOut.kind = "returned"
  /\ gVariations.variable \in {"additionalFields", "descriptionWordLength"}

\* the search queries of configuration k, read once the whole list exists, name
\* the searchable fields of the configuration's own product structure
OwnSearchFields(k) ==
  LET config == DeepConfig(gHeap, gOut.configs[k])
      own == getSearchableFields(config.productStructure.fields)
  IN  /\ config.searchQueries.fullTextSearch.fields = own
      /\ config.searchQueries.fuzzySearch.field = own[1]

\* C28: the configurations of one generateConfigurations call share no
\* mutable state: after an additionalFields or descriptionWordLength sweep
\* every configuration's searchQueries.fullTextSearch.fields and
\* searchQueries.fuzzySearch.field are the searchable fields of its own
\* productStructure, not those of the last generated configuration.
C28_NoSharedSearchQueries ==
  StructureSweepReturned => \A k \in 1..Len(gOut.configs) : OwnSearchFields(k)

\* the last configuration of the list holds its own search fields
LastConfigurationOwnFields ==
  (StructureSweepReturned /\ gOut.configs # <<>>) => OwnSearchFields(Len(gOut.configs))

\* every configuration of the list reads the search fields of the last one
AllReadLastSearchFields ==
  StructureSweepReturned =>
    \A k \in 1..Len(gOut.configs) :
      DeepConfig(gHeap, gOut.configs[k]).searchQueries =
        DeepConfig(gHeap, gOut.configs[Len(gOut.configs)]).searchQueries

\* an additionalFields sweep has returned a first configuration with one
\* additional field whose search queries name the fields of the last one
FirstConfigurationHoldsLastFields ==
  /\ StructureSweepReturned
  /\ gVariations.variable = "additionalFields"
  /\ Len(gOut.configs) >= 2
  /\ ~OwnSearchFields(1)
  /\ DeepConfig(gHeap, gOut.configs[1]).searchQueries.fullTextSearch.fields =
       getSearchableFields(gOut.configs[Len(gOut.configs)].productStructure.fields)

----------------------------------------------------------------------------
(* A result file added while a rebuild is in progress *)

\* the number of complete samples a map holds (one total duration a file)
RECURSIVE TotalSamples(_)
TotalSamples(aggregations) ==
  IF aggregations = <<>> THEN 0
  ELSE LET points == Head(aggregations).value.dataPoints
           count[d \in 0..Len(points)] ==
             IF d = 0 THEN 0 ELSE count[d - 1] + Len(points[d].value.totalDurationMs)
       IN  count[Len(points)] + TotalSamples(Tail(aggregations))

\* the map holds one complete sample for every complete result file of the
\* directory
CoversDirectory(aggregations) ==
  TotalSamples(aggregations) =
    Cardinality({file \in Range(getResultFiles(dFiles)) : Extracted(file)})

\* C29: a result file added while a rebuild is in progress (after the listing,
\* before the cache is saved) is not hidden by the cache: the timestamp stored
\* with the cache is never newer than the directory the listing was taken
\* from, so a cache that is current for the directory holds the samples of
\* every file of the directory, and a call served from the cache while the
\* directory is as it was checked returns datasets that include every file.
C29_AddedFileNotHidden ==
  /\ (CompleteCache(kCache) /\ isCacheValid(kCache, dMtime)) =>
       CoversDirectory(loadFromCache(kCache).aggregations)
  /\ (pPc = "returned" /\ pCheck.valid /\ pCheck.mtime = dMtime) =>
       CoversDirectory(pReturn.aggregations)

\* a file was added between the listing and the stat of saveToCache, and the
\* next call has been served from the cache, reading no file and returning no
\* sample of the added file
AddedFileHiddenByCache ==
  /\ pPc = "returned"
  /\ pCalls = 2
  /\ pCheck.valid
  /\ pReads = <<>>
  /\ dFiles = {"benchmark_1.json", "benchmark_2.json"}
  /\ pCheck.mtime = dMtime
  /\ TotalSamples(pReturn.aggregations) = 1

\* the cache a rebuild writes holds the samples of the files it listed, with
\* the directory time read by saveToCache after the last file was processed
CacheHoldsListedFiles ==
  pSave.wrote =>
    /\ TotalSamples(loadFromCache(pSave.written).aggregations) =
         Cardinality({i \in 1..Len(pFiles) : Extracted(pFiles[i])})
    /\ pSave.written.resultsLastModified = pSave.mtime
    /\ pSave.reads = Len(pFiles)

----------------------------------------------------------------------------
(* The order in which the files of a chunk complete *)

\* the samples of a data point without their order
UnorderedSamples(dataPoint) ==
  [indexing |-> BagOf(dataPoint.indexingTimeMs), search |-> BagOf(dataPoint.searchTimeMs),
   update |-> BagOf(dataPoint.updateTimeMs), total |-> BagOf(dataPoint.totalDurationMs)]

\* the samples of every bucket of a map, without their order
SamplesOf(aggregations) ==
  [bucket \in Buckets(aggregations) |->
     UnorderedSamples(BucketOf(aggregations, bucket))]

\* the swept-variable name of every dataset of a map
VariablesOf(aggregations) ==
  {<<aggregations[c].key, aggregations[c].value.variable>> : c \in 1..Len(aggregations)}

\* the map the listed files give when they complete in listing order
InListingOrder == ReduceFiles(<<>>, pFiles)

\* C30: the outcome of a rebuild does not depend on the order in which the
\* concurrently processed files of a chunk complete: whatever that order,
\* each dataset ends with the same swept-variable name and each (dataset,
\* value) bucket with the same multiset of samples as for the listing order,
\* also when files of one chartName come from sweeps of different variables.
C30_OrderIndependent ==
  RebuildReturned =>
    /\ VariablesOf(pReturn.aggregations) = VariablesOf(InListingOrder)
    /\ SamplesOf(pReturn.aggregations) = SamplesOf(InListingOrder)

\* the samples of the buckets do not depend on the order
SamplesOrderIndependent ==
  RebuildReturned => SamplesOf(pReturn.aggregations) = SamplesOf(InListingOrder)

\* one variable for each chart name among the processed files
OneVariablePerChart ==
  \A i, j \in 1..Len(pDone) :
    (Assigned(pDone[i]) /\ Assigned(pDone[j]) /\
     BucketOfFile(pDone[i])[1] = BucketOfFile(pDone[j])[1]) =>
      extractChartInfo(FileContent(pDone[i]).config).variable =
        extractChartInfo(FileContent(pDone[j]).config).variable

\* the variable names do not depend on the order when the files of each chart
\* name come from sweeps of one variable
VariablesOrderIndependent ==
  (RebuildReturned /\ OneVariablePerChart) =>
    VariablesOf(pReturn.aggregations) = VariablesOf(InListingOrder)

\* two files of one chart name, from a documentsPerBatch and a
\* numberOfBatches sweep, were processed in one chunk; the second listed
\* finished first and the dataset carries its variable
DatasetNamedAfterFirstFinished ==
  /\ RebuildReturned
  /\ pFiles = <<"benchmark_1.json", "benchmark_8.json">>
  /\ pDone = <<"benchmark_8.json", "benchmark_1.json">>
  /\ VariablesOf(pReturn.aggregations) = {<<"Batch Size Scaling", "numberOfBatches">>}
  /\ VariablesOf(InListingOrder) = {<<"Batch Size Scaling", "documentsPerBatch">>}

====
